---- MODULE Spec2Model ----
(***************************************************************************)
(* Graph extraction of codeview-rustdoc: the API-description walker        *)
(* (build_graph), the call-edge extractor (SourceParser) and the workspace *)
(* merge (load_workspace_graph).                                           *)
(*                                                                         *)
(* Node IDs are "::"-joined strings in the source; here an ID is the       *)
(* sequence of its segments, so "pkg::m::f" is <<"pkg", "m", "f">>.        *)
(* Vec<Node> and Vec<Edge> are bags: the order of a Vec is dropped, the    *)
(* number of copies of each element is kept.                               *)
(***************************************************************************)
EXTENDS Integers, Sequences, FiniteSets, Bags, TLC

VARIABLES
    pc,            \* position in load_workspace_graph / build_graph
    jsons,         \* rustdoc_jsons still to load (head = the one being extracted)
    members,       \* workspace_members
    call_mode,     \* CallMode
    todo,          \* keys of the map the current loop still has to visit
    graph,         \* Graph under construction: [nodes, edges]
    node_cache,    \* build_graph: node_cache
    edge_cache,    \* build_graph: edge_cache
    nodes_by_id,   \* load_workspace_graph: nodes_by_id
    edge_keys,     \* load_workspace_graph: edge_keys
    edges,         \* load_workspace_graph: edges
    workspace,     \* the Workspace returned
    item_to_parent,\* build_graph: item_to_parent
    parser         \* SourceParser: visited_files, the running parse_items calls

vars == <<pc, jsons, members, call_mode, todo, graph, node_cache, edge_cache,
          nodes_by_id, edge_keys, edges, workspace, item_to_parent, parser>>

(***************************************************************************)
(* Option values                                                           *)
(***************************************************************************)
NoId == -1          \* Option<rdt::Id>::None
None == <<>>        \* Option<String>::None for node IDs (an ID is never empty)

Last(s) == s[Len(s)]
Front(s) == SubSeq(s, 1, Len(s) - 1)
Range(s) == {s[i] : i \in 1..Len(s)}

(***************************************************************************)
(* Identity and path canonicalization                                      *)
(***************************************************************************)
\* seg == "_" || seg.starts_with("__"); segments are drawn from InternalSegs
InternalSegs == {"_", "__p"}

is_internal_path(path) == \E i \in 1..Len(path) : path[i] \in InternalSegs

join_path(crate_name, path) ==
    IF path = <<>> THEN <<crate_name>>
    ELSE LET start == IF path[1] = crate_name THEN 1 ELSE 0
         IN  IF start >= Len(path) THEN <<crate_name>>
             ELSE <<crate_name>> \o SubSeq(path, start + 1, Len(path))

\* A plausible slip: the parent of every item is taken to be its package.
parent_path_id_flat(crate_name, path) ==
    IF path = <<>> THEN None ELSE <<crate_name>>

parent_path_id(crate_name, path) ==
    IF path = <<>> THEN None
    ELSE IF Len(path) = 1 THEN <<crate_name>>
    ELSE join_path(crate_name, Front(path))

\* krate.external_crates.get(&crate_id).map(name.replace('-', "_")).unwrap_or(fallback)
normalize(name) == IF name = "b-x" THEN "b_x" ELSE name

crate_name_for_id(krate, crate_id, fallback) ==
    IF crate_id \in DOMAIN krate.external_crates
    THEN normalize(krate.external_crates[crate_id])
    ELSE fallback

resolve_id(krate, default_crate_name, id) ==
    IF id \in DOMAIN krate.paths
    THEN join_path(crate_name_for_id(krate, krate.paths[id].crate_id, default_crate_name),
                   krate.paths[id].path)
    ELSE None

impl_node_id(crate_name, id) == <<crate_name, "impl-" \o ToString(id)>>

\* A plausible slip: the per-impl node is keyed by the associated item alone.
assoc_node_id_shared(impl_id, assoc_id) ==
    <<impl_id[1], "method-" \o ToString(assoc_id)>>

assoc_node_id(impl_id, assoc_id) == impl_id \o <<"method-" \o ToString(assoc_id)>>

RECURSIVE type_to_id(_)
type_to_id(ty) ==
    CASE ty.tag = "ResolvedPath" -> ty.id
      [] ty.tag = "QualifiedPath" -> type_to_id(ty.self_type)
      [] OTHER -> NoId

map_item_kind(kind, is_method) ==
    CASE kind = "Module" -> "Module"
      [] kind = "Struct" -> "Struct"
      [] kind = "Union" -> "Union"
      [] kind = "Enum" -> "Enum"
      [] kind = "Trait" -> "Trait"
      [] kind = "TraitAlias" -> "TraitAlias"
      [] kind = "Impl" -> "Impl"
      [] kind = "Function" -> IF is_method THEN "Method" ELSE "Function"
      [] kind = "TypeAlias" -> "TypeAlias"
      [] OTHER -> "None"

(***************************************************************************)
(* The API description (rdt::Crate), reduced to what build_graph reads.    *)
(*   paths:           id -> [path, kind, crate_id]                         *)
(*   index:           id -> item                                           *)
(*   external_crates: crate_id -> name                                     *)
(***************************************************************************)
Summary(path, kind, crate_id) == [path |-> path, kind |-> kind, crate_id |-> crate_id]

Generic == [tag |-> "Generic"]
ResolvedPath(id) == [tag |-> "ResolvedPath", id |-> id, args |-> <<>>]
ResolvedPathArgs(id, args) == [tag |-> "ResolvedPath", id |-> id, args |-> args]
QualifiedPath(self_type, trait_) ==
    [tag |-> "QualifiedPath", self_type |-> self_type, trait_ |-> trait_]
BorrowedRef(type_) == [tag |-> "BorrowedRef", type_ |-> type_]

\* rdt::Item: the fields of the item and of its inner enum that the walker reads.
\*   types  = the types of the item's type-bearing positions (field types,
\*            signature inputs and output, alias target, constant type)
\*   attrs  = the item's attributes, each with the names its text holds
\*            between "derive(" and ")" (none for any other attribute)
Item(id, crate_id, tag) ==
    [id |-> id, crate_id |-> crate_id, tag |-> tag, visibility |-> "Public",
     span |-> TRUE, docs |-> FALSE, attrs |-> <<>>,
     fields |-> FALSE, generics |-> FALSE,
     items |-> <<>>, trait_ |-> NoId, for_ |-> Generic, types |-> <<>>,
     target |-> NoId, name |-> "item"]

(***************************************************************************)
(* Graph model (codeview-core)                                             *)
(***************************************************************************)
Node(id, name, kind, visibility, is_external, has) ==
    [id |-> id, name |-> name, kind |-> kind, visibility |-> visibility,
     is_external |-> is_external, has |-> has,
     impl_type |-> "None", parent_impl |-> None, impl_trait |-> None]

Edge(from, to, kind, confidence) ==
    [from |-> from, to |-> to, kind |-> kind, confidence |-> confidence]

EdgeKey(e) == <<e.from, e.to, e.kind>>

\* Graph::new together with the caches of build_graph
NewBuild == [nodes |-> EmptyBag, edges |-> EmptyBag,
             node_cache |-> {}, edge_cache |-> {}]

add_node(st, node) == [st EXCEPT !.nodes = @ (+) SetToBag({node})]

add_edge(st, edge) == [st EXCEPT !.edges = @ (+) SetToBag({edge})]

\* A plausible slip: the edge cache is filled but never consulted.
push_edge_nocache(st, from, to, kind, confidence) ==
    add_edge([st EXCEPT !.edge_cache = @ \cup {<<from, to, kind>>}],
             Edge(from, to, kind, confidence))

push_edge(st, from, to, kind, confidence) ==
    IF <<from, to, kind>> \in st.edge_cache
    THEN st
    ELSE add_edge([st EXCEPT !.edge_cache = @ \cup {<<from, to, kind>>}],
                  Edge(from, to, kind, confidence))

\* A plausible slip: the package node is added without asking node_cache.
ensure_crate_node_always(st, crate_name, visibility, is_external) ==
    [add_node(st, Node(<<crate_name>>, crate_name, "Crate", visibility,
                       is_external, {}))
       EXCEPT !.node_cache = @ \cup {<<crate_name>>}]

ensure_crate_node(st, crate_name, visibility, is_external) ==
    IF <<crate_name>> \in st.node_cache
    THEN st
    ELSE [add_node(st, Node(<<crate_name>>, crate_name, "Crate", visibility,
                            is_external, {}))
            EXCEPT !.node_cache = @ \cup {<<crate_name>>}]

\* the loop body of ensure_module_nodes for prefix path[..=index] (index from 1)
RECURSIVE module_chain(_, _, _, _, _, _)
module_chain(st, crate_name, path, is_external, index, parent_id) ==
    IF index > Len(path) - 1 THEN st
    ELSE LET module_id == join_path(crate_name, SubSeq(path, 1, index))
             st1 == IF module_id \in st.node_cache THEN st
                    ELSE [add_node(st, Node(module_id, path[index], "Module",
                                            "Unknown", is_external, {}))
                            EXCEPT !.node_cache = @ \cup {module_id}]
             st2 == IF parent_id # module_id
                    THEN push_edge(st1, parent_id, module_id, "Contains", "Static")
                    ELSE st1
         IN  module_chain(st2, crate_name, path, is_external, index + 1, module_id)

ensure_module_nodes(st, crate_name, path, is_external) ==
    IF Len(path) <= 1 THEN st
    ELSE module_chain(st, crate_name, path, is_external, 1, <<crate_name>>)

(***************************************************************************)
(* Pass A of build_graph: one iteration of `for (item_id, summary) in      *)
(* &krate.paths`.                                                          *)
(***************************************************************************)
collect_method_ids(krate) ==
    UNION {Range(krate.index[i].items) :
             i \in {j \in DOMAIN krate.index : krate.index[j].tag \in {"Impl", "Trait"}}}

map_visibility(visibility) ==
    CASE visibility = "Public" -> "Public"
      [] visibility = "Crate" -> "Crate"
      [] visibility = "Restricted" -> "Restricted"
      [] OTHER -> "Inherited"

\* Which optional payloads extract_item_details returns as Some.
extract_item_details(item) ==
    (IF item.docs THEN {"docs"} ELSE {})
    \cup (IF item.generics
             /\ item.tag \in {"Struct", "Union", "Enum", "Function", "Trait",
                              "TraitAlias", "TypeAlias"}
          THEN {"generics"} ELSE {})
    \cup (IF item.tag \in {"Struct", "Union"} /\ item.fields THEN {"fields"} ELSE {})
    \cup (IF item.tag = "Enum" /\ item.fields THEN {"variants"} ELSE {})
    \cup (IF item.tag = "Function" THEN {"signature"} ELSE {})

\* span and attrs of a node made from `item`
item_span_attrs(item) ==
    (IF item.span THEN {"span"} ELSE {})
    \cup (IF item.attrs # <<>> THEN {"attrs"} ELSE {})

\* the node pushed at lines 586-605 for a paths entry
path_node(krate, item_id, node_id, node_kind, is_external) ==
    LET summary == krate.paths[item_id]
        present == item_id \in DOMAIN krate.index
        item == krate.index[item_id]
    IN  Node(node_id,
             Last(summary.path),
             node_kind,
             IF present THEN map_visibility(item.visibility) ELSE "Unknown",
             is_external,
             IF present THEN item_span_attrs(item) \cup extract_item_details(item)
             ELSE {})

paths_entry(st, krate, crate_name, workspace_members, item_id) ==
    LET summary == krate.paths[item_id]
        is_method == item_id \in collect_method_ids(krate)
        node_kind == map_item_kind(summary.kind, is_method)
        item_crate_name == crate_name_for_id(krate, summary.crate_id, crate_name)
        is_external == item_crate_name \notin workspace_members
        st1 == ensure_crate_node(st, item_crate_name, "Public", is_external)
        st2 == ensure_module_nodes(st1, item_crate_name, summary.path, is_external)
        node_id == join_path(item_crate_name, summary.path)
        st3 == IF node_id \in st2.node_cache THEN st2
               ELSE [add_node(st2, path_node(krate, item_id, node_id, node_kind,
                                             is_external))
                       EXCEPT !.node_cache = @ \cup {node_id}]
        parent_id == parent_path_id(item_crate_name, summary.path)
    IN  IF node_kind = "None" \/ summary.path = <<>> \/ is_internal_path(summary.path)
        THEN st
        ELSE IF parent_id # None /\ parent_id # node_id
             THEN push_edge(st3, parent_id, node_id, "Contains", "Static")
             ELSE st3

(***************************************************************************)
(* Pass B of build_graph: re-exports, impls, type uses, derives            *)
(***************************************************************************)
Fold2(op(_, _), acc, seq) ==
    LET RECURSIVE go(_, _)
        go(a, i) == IF i > Len(seq) THEN a ELSE go(op(a, seq[i]), i + 1)
    IN  go(acc, 1)

\* a set in some order (the order of a HashMap/HashSet iteration that only
\* feeds push_edge does not change the bag of edges)
RECURSIVE SetToSeq(_)
SetToSeq(S) == IF S = {} THEN <<>>
               ELSE LET x == CHOOSE y \in S : TRUE IN <<x>> \o SetToSeq(S \ {x})

\* the modules that list `child` among their items
parents_of(krate, child) ==
    {m \in DOMAIN krate.index :
        krate.index[m].tag = "Module" /\ child \in Range(krate.index[m].items)}

\* item_to_parent: the last module visited that lists the child wins, and
\* the visiting order of krate.index is not fixed
ParentMaps(krate) ==
    LET children == {c \in UNION {Range(krate.index[m].items) : m \in DOMAIN krate.index} :
                        parents_of(krate, c) # {}}
    IN  {f \in [children -> DOMAIN krate.index] :
            \A c \in children : f[c] \in parents_of(krate, c)}

add_use_import_edges_with_parent_map(st, krate, default_crate_name, parent_map) ==
    LET uses == {i \in DOMAIN krate.index :
                    /\ krate.index[i].tag = "Use"
                    /\ krate.index[i].target # NoId
                    /\ i \in DOMAIN parent_map
                    /\ resolve_id(krate, default_crate_name, parent_map[i]) # None
                    /\ resolve_id(krate, default_crate_name, krate.index[i].target) # None}
        one(acc, i) ==
            push_edge(acc,
                      resolve_id(krate, default_crate_name, parent_map[i]),
                      resolve_id(krate, default_crate_name, krate.index[i].target),
                      "ReExports", "Static")
    IN  Fold2(one, st, SetToSeq(uses))

RECURSIVE collect_type_ids(_)
collect_type_ids(ty) ==
    CASE ty.tag = "ResolvedPath" ->
            {ty.id} \cup UNION {collect_type_ids(ty.args[i]) : i \in 1..Len(ty.args)}
      [] ty.tag = "QualifiedPath" ->
            collect_type_ids(ty.self_type)
            \cup (IF ty.trait_ # NoId THEN {ty.trait_} ELSE {})
      [] ty.tag = "BorrowedRef" -> collect_type_ids(ty.type_)
      [] OTHER -> {}

\* the type_ids set build_graph fills for an item (lines 805-865)
item_type_ids(item) ==
    CASE item.tag \in {"Struct", "Union", "Enum", "Trait", "TraitAlias", "TypeAlias",
                       "Function", "Constant", "Static"} ->
            UNION {collect_type_ids(item.types[i]) : i \in 1..Len(item.types)}
      [] item.tag = "Impl" ->
            UNION {collect_type_ids(item.types[i]) : i \in 1..Len(item.types)}
            \cup collect_type_ids(item.for_)
            \cup (IF item.trait_ # NoId THEN {item.trait_} ELSE {})
      [] OTHER -> {}

add_uses_edges(st, owner_id, type_ids, krate, default_crate_name) ==
    LET one(acc, type_id) ==
            LET target_id == resolve_id(krate, default_crate_name, type_id)
            IN  IF target_id = None \/ target_id = owner_id THEN acc
                ELSE push_edge(acc, owner_id, target_id, "UsesType", "Static")
    IN  Fold2(one, st, SetToSeq(type_ids))

\* trait_lookup.get(key): the Vec stored under key, as a bag (<<>> key absent)
build_trait_lookup(krate, default_crate_name, key) ==
    LET traits == {i \in DOMAIN krate.paths : krate.paths[i].kind = "Trait"}
        full(i) == join_path(crate_name_for_id(krate, krate.paths[i].crate_id,
                                               default_crate_name),
                             krate.paths[i].path)
        named == {i \in traits : krate.paths[i].path # <<>>
                                 /\ <<Last(krate.paths[i].path)>> = key}
        pushed == Fold2(LAMBDA b, i : b (+) SetToBag({full(i)}), EmptyBag, SetToSeq(named))
        inserted == IF \E i \in traits : full(i) = key
                    THEN SetToBag({key}) ELSE EmptyBag
    IN  inserted (+) pushed

parse_derive_traits(attrs) ==
    Fold2(LAMBDA acc, attr : acc \o attr.derive, <<>>, attrs)

\* A plausible slip: a bare name gets an edge to every trait of that name.
add_derives_edges_all(st, owner_id, attrs, krate, default_crate_name) ==
    LET one(acc, trait_name) ==
            Fold2(LAMBDA a, path : push_edge(a, owner_id, path, "Derives", "Inferred"),
                  acc,
                  SetToSeq(BagToSet(build_trait_lookup(krate, default_crate_name,
                                                       trait_name))))
    IN  Fold2(one, st, parse_derive_traits(attrs))

add_derives_edges(st, owner_id, attrs, krate, default_crate_name) ==
    LET one(acc, trait_name) ==
            LET paths == build_trait_lookup(krate, default_crate_name, trait_name)
            IN  IF Len(trait_name) > 1
                THEN Fold2(LAMBDA a, path : push_edge(a, owner_id, path, "Derives", "Inferred"),
                           acc, SetToSeq(BagToSet(paths)))
                ELSE IF BagCardinality(paths) = 1
                     THEN push_edge(acc, owner_id, CHOOSE path \in BagToSet(paths) : TRUE,
                                    "Derives", "Inferred")
                     ELSE acc
    IN  Fold2(one, st, parse_derive_traits(attrs))

\* A plausible slip: impl_trait is never filled.
impl_node_plain(krate, crate_name, item, impl_id, is_external) ==
    [Node(impl_id, "impl", "Impl", map_visibility(item.visibility), is_external,
          item_span_attrs(item))
       EXCEPT !.impl_type = IF item.trait_ # NoId THEN "Trait" ELSE "Inherent"]

\* the impl node pushed at lines 671-690
impl_node(krate, crate_name, item, impl_id, is_external) ==
    [Node(impl_id, "impl", "Impl", map_visibility(item.visibility), is_external,
          item_span_attrs(item)
          \cup (IF item.generics THEN {"generics"} ELSE {})
          \cup (IF item.docs THEN {"docs"} ELSE {}))
       EXCEPT !.impl_type = IF item.trait_ # NoId THEN "Trait" ELSE "Inherent",
              !.impl_trait = IF item.trait_ # NoId
                             THEN resolve_id(krate, crate_name, item.trait_)
                             ELSE None]

\* the per-impl node pushed at lines 764-783
assoc_node(assoc_item, node_id, kind, impl_id, is_external) ==
    [Node(node_id, assoc_item.name, kind, map_visibility(assoc_item.visibility),
          is_external, item_span_attrs(assoc_item) \cup extract_item_details(assoc_item))
       EXCEPT !.parent_impl = impl_id]

\* one iteration of `for assoc_id in &impl_block.items` (lines 734-795)
impl_assoc(st, krate, impl_id, is_external, assoc_id) ==
    IF assoc_id \notin DOMAIN krate.index THEN st
    ELSE LET assoc_item == krate.index[assoc_id]
             kind == CASE assoc_item.tag = "Function" -> "Method"
                       [] assoc_item.tag = "TypeAlias" -> "TypeAlias"
                       [] OTHER -> "None"
             node_id == assoc_node_id(impl_id, assoc_id)
             st1 == IF node_id \in st.node_cache THEN st
                    ELSE [add_node(st, assoc_node(assoc_item, node_id, kind, impl_id,
                                                  is_external))
                            EXCEPT !.node_cache = @ \cup {node_id}]
         IN  IF kind = "None" THEN st
             ELSE push_edge(st1, impl_id, node_id, "Defines", "Static")

\* the Impl arm of the Pass B loop (lines 647-798); yields the build state
impl_item(st, krate, crate_name, workspace_members, parent_map, item) ==
    LET item_crate_name == crate_name_for_id(krate, item.crate_id, crate_name)
        is_external == item_crate_name \notin workspace_members
        st1 == ensure_crate_node(st, item_crate_name, "Public", is_external)
        impl_id == impl_node_id(item_crate_name, item.id)
        st2 == IF impl_id \in st1.node_cache THEN st1
               ELSE [add_node(st1, impl_node(krate, crate_name, item, impl_id, is_external))
                       EXCEPT !.node_cache = @ \cup {impl_id}]
        parent_node_id == IF item.id \in DOMAIN parent_map
                          THEN resolve_id(krate, crate_name, parent_map[item.id])
                          ELSE None
        st3 == IF parent_node_id # None
               THEN push_edge(st2, parent_node_id, impl_id, "Contains", "Static")
               ELSE st2
        for_id == type_to_id(item.for_)
        type_node_id == IF for_id # NoId THEN resolve_id(krate, crate_name, for_id)
                        ELSE None
        trait_node_id == IF item.trait_ # NoId
                         THEN resolve_id(krate, crate_name, item.trait_)
                         ELSE None
        st4 == IF type_node_id # None
               THEN push_edge(st3, type_node_id, impl_id, "Defines", "Static")
               ELSE st3
        st5 == IF type_node_id # None /\ trait_node_id # None
               THEN push_edge(st4, type_node_id, trait_node_id, "Implements", "Static")
               ELSE st4
    IN  Fold2(LAMBDA acc, assoc_id : impl_assoc(acc, krate, impl_id, is_external, assoc_id),
              st5, item.items)

\* the Defines edges of a trait's items (lines 823-834)
trait_defines(st, krate, crate_name, owner_id, item) ==
    Fold2(LAMBDA acc, assoc_id :
              IF resolve_id(krate, crate_name, assoc_id) # None
              THEN push_edge(acc, owner_id, resolve_id(krate, crate_name, assoc_id),
                             "Defines", "Static")
              ELSE acc,
          st, item.items)

\* one iteration of `for item in krate.index.values()` (lines 645-883)
index_item(st, krate, crate_name, workspace_members, parent_map, id) ==
    LET item == krate.index[id]
        is_impl == item.tag = "Impl"
        owner_id == IF is_impl
                    THEN impl_node_id(crate_name_for_id(krate, item.crate_id, crate_name),
                                      item.id)
                    ELSE resolve_id(krate, crate_name, item.id)
        st1 == IF is_impl
               THEN impl_item(st, krate, crate_name, workspace_members, parent_map, item)
               ELSE st
        st2 == IF item.tag = "Trait"
               THEN trait_defines(st1, krate, crate_name, owner_id, item)
               ELSE st1
        st3 == add_uses_edges(st2, owner_id, item_type_ids(item), krate, crate_name)
    IN  IF owner_id = None THEN st
        ELSE add_derives_edges(st3, owner_id, item.attrs, krate, crate_name)

(***************************************************************************)
(* Function index                                                          *)
(***************************************************************************)
\* the paths entries build_function_index indexes
indexed_ids(krate) ==
    {i \in DOMAIN krate.paths :
        /\ krate.paths[i].kind = "Function"
        /\ krate.paths[i].path # <<>>
        /\ ~is_internal_path(krate.paths[i].path)}

full_path_of(krate, default_crate_name, i) ==
    join_path(crate_name_for_id(krate, krate.paths[i].crate_id, default_crate_name),
              krate.paths[i].path)

BagOf(f(_), S) == Fold2(LAMBDA b, i : b (+) SetToBag({f(i)}), EmptyBag, SetToSeq(S))

\* FunctionIndex: callables and methods are Vecs (bags); the by-name maps are
\* given by callables_by_name / methods_by_name below
build_function_index(krate, method_ids, default_crate_name) ==
    LET full(i) == full_path_of(krate, default_crate_name, i)
        entry(i) == [path |-> full(i), name |-> Last(krate.paths[i].path)]
    IN  [callables |-> BagOf(entry, indexed_ids(krate)),
         methods |-> BagOf(entry, indexed_ids(krate) \cap method_ids)]

\* the bag of the paths of the entries of `entries` that satisfy keep
FilterPaths(entries, keep(_)) ==
    Fold2(LAMBDA b, e : IF keep(e) THEN b (+) (e :> CopiesIn(e, entries)) ELSE b,
          EmptyBag, SetToSeq(BagToSet(entries)))

PathsOnly(entries) ==
    Fold2(LAMBDA b, e : b (+) (e.path :> CopiesIn(e, entries)),
          EmptyBag, SetToSeq(BagToSet(entries)))

\* path.ends_with("::" ++ segments.join("::"))
ends_with(path, segments) ==
    /\ Len(path) > Len(segments)
    /\ SubSeq(path, Len(path) - Len(segments) + 1, Len(path)) = segments

resolve_all_by_suffix(paths, segments) ==
    IF segments = <<>> THEN EmptyBag
    ELSE PathsOnly(FilterPaths(paths, LAMBDA e : ends_with(e.path, segments)))

resolve_by_suffix(paths, segments) ==
    LET matches == resolve_all_by_suffix(paths, segments)
    IN  IF BagCardinality(matches) = 1 THEN CHOOSE m \in BagToSet(matches) : TRUE
        ELSE None

resolve_by_name(entries, name) ==
    PathsOnly(FilterPaths(entries, LAMBDA e : e.name = name))

\* a variant that settles for one of several entries of the name
resolve_by_unique_name_first(entries, name) ==
    LET paths == resolve_by_name(entries, name)
    IN  IF BagCardinality(paths) >= 1 THEN CHOOSE m \in BagToSet(paths) : TRUE
        ELSE None

resolve_by_unique_name(entries, name) ==
    LET paths == resolve_by_name(entries, name)
    IN  IF BagCardinality(paths) = 1 THEN CHOOSE m \in BagToSet(paths) : TRUE
        ELSE None

(***************************************************************************)
(* Call resolution (SourceParser)                                          *)
(***************************************************************************)
\* A plausible slip: the last arm of the match yields Static.
merge_confidence_static(left, right) ==
    IF left = "Runtime" \/ right = "Runtime" THEN "Runtime" ELSE "Static"

merge_confidence(left, right) ==
    IF left = "Runtime" \/ right = "Runtime" THEN "Runtime"
    ELSE IF left = "Static" \/ right = "Static" THEN "Static"
    ELSE "Inferred"

allow_ambiguous(mode) == mode = "Ambiguous"

\* candidates: function from callee ID to Confidence.  Yields the new map
\* and the bool add_candidates returns.
\* A plausible slip: Strict mode no longer drops a match set of several.
add_candidates_keep(mode, acc, matches) ==
    LET n == BagCardinality(matches)
        confidence == IF n = 1 THEN "Static" ELSE "Inferred"
        old == acc.candidates
    IN  IF n = 0 THEN [acc EXCEPT !.ret = FALSE]
        ELSE [candidates |->
                [c \in DOMAIN old \cup BagToSet(matches) |->
                    IF c \in BagToSet(matches)
                    THEN merge_confidence(IF c \in DOMAIN old THEN old[c] ELSE confidence,
                                          confidence)
                    ELSE old[c]],
              found |-> TRUE, ret |-> TRUE]

add_candidates(mode, acc, matches) ==
    LET n == BagCardinality(matches)
        confidence == IF n = 1 THEN "Static" ELSE "Inferred"
        old == acc.candidates
    IN  IF n = 0 THEN [acc EXCEPT !.ret = FALSE]
        ELSE IF n > 1 /\ ~allow_ambiguous(mode) THEN [acc EXCEPT !.ret = FALSE]
        ELSE [candidates |->
                [c \in DOMAIN old \cup BagToSet(matches) |->
                    IF c \in BagToSet(matches)
                    THEN merge_confidence(IF c \in DOMAIN old THEN old[c] ELSE confidence,
                                          confidence)
                    ELSE old[c]],
              found |-> TRUE, ret |-> TRUE]

\* `found |= self.add_candidates(..)`
found_or(acc_before, acc_after) ==
    [acc_after EXCEPT !.found = acc_before.found \/ acc_after.ret]

NoCandidates == [candidates |-> <<>>, found |-> FALSE, ret |-> FALSE]

RECURSIVE split_from(_, _, _)
\* the while loop of split_path_anchor from position index (from 1)
split_from(segments, index, super_count) ==
    IF index > Len(segments)
    THEN [anchor |-> IF super_count > 0 THEN "Super" ELSE "Relative",
          count |-> super_count, rest |-> <<>>]
    ELSE CASE segments[index] = "crate" ->
                [anchor |-> "Crate", count |-> super_count,
                 rest |-> SubSeq(segments, index + 1, Len(segments))]
           [] segments[index] \in {"self", "Self"} ->
                [anchor |-> "Self_", count |-> super_count,
                 rest |-> SubSeq(segments, index + 1, Len(segments))]
           [] segments[index] = "super" ->
                split_from(segments, index + 1, super_count + 1)
           [] OTHER ->
                [anchor |-> IF super_count > 0 THEN "Super" ELSE "Relative",
                 count |-> super_count,
                 rest |-> SubSeq(segments, index, Len(segments))]

split_path_anchor(segments) == split_from(segments, 1, 0)

\* A plausible slip: the Super anchor keeps the whole module path.
scoped_segments_nosuper(anchor, rest, module_path) ==
    (IF anchor.anchor = "Crate" THEN <<>> ELSE module_path) \o rest

scoped_segments(anchor, rest, module_path) ==
    LET base == CASE anchor.anchor = "Crate" -> <<>>
                  [] anchor.anchor = "Super" ->
                        SubSeq(module_path, 1,
                               IF Len(module_path) >= anchor.count
                               THEN Len(module_path) - anchor.count ELSE 0)
                  [] OTHER -> module_path
    IN  base \o rest

resolve_type_segments(segments, module_path) ==
    LET a == split_path_anchor(segments)
    IN  CASE a.anchor = "Crate" ->
                [some |-> TRUE, segments |-> a.rest, is_scoped |-> TRUE]
          [] a.anchor = "Super" ->
                [some |-> TRUE, segments |-> scoped_segments(a, a.rest, module_path),
                 is_scoped |-> TRUE]
          [] OTHER -> [some |-> TRUE, segments |-> a.rest, is_scoped |-> FALSE]

\* Option<&TypeSegments>::None
NoType == [some |-> FALSE, segments |-> <<>>, is_scoped |-> FALSE]

resolve_callee_path_candidates(fi, mode, segments, module_path) ==
    LET a == split_path_anchor(segments)
        normalized == a.rest
        c0 == NoCandidates
        c1 == IF a.anchor = "Relative"
              THEN found_or(c0, add_candidates(mode, c0,
                                resolve_all_by_suffix(fi.callables, normalized)))
              ELSE c0
        scoped == scoped_segments(a, a.rest, module_path)
        c2 == found_or(c1, add_candidates(mode, c1,
                                resolve_all_by_suffix(fi.callables, scoped)))
        c3 == IF ~c2.found /\ Len(normalized) = 1 /\ a.anchor = "Relative"
              THEN add_candidates(mode, c2, resolve_by_name(fi.callables, normalized[1]))
              ELSE c2
    IN  IF normalized = <<>> THEN <<>> ELSE c3.candidates

\* self_type_segments: a TypeSegments record, or NoType
resolve_callee_method_candidates(fi, mode, name, module_path, self_type_segments) ==
    LET c0 == NoCandidates
        ts == self_type_segments
        c1 == IF ts.some
              THEN found_or(c0, add_candidates(mode, c0,
                        resolve_all_by_suffix(fi.methods, ts.segments \o <<name>>)))
              ELSE c0
        c2 == IF ts.some /\ ~ts.is_scoped
              THEN found_or(c1, add_candidates(mode, c1,
                        resolve_all_by_suffix(fi.methods,
                                              module_path \o ts.segments \o <<name>>)))
              ELSE c1
        c3 == IF ~c2.found
              THEN add_candidates(mode, c2, resolve_by_name(fi.methods, name))
              ELSE c2
    IN  c3.candidates

resolve_free_fn_caller(fi, module_path, name) ==
    LET id == resolve_by_suffix(fi.callables, module_path \o <<name>>)
    IN  IF id # None THEN id ELSE resolve_by_unique_name(fi.callables, name)

resolve_method_caller(fi, module_path, type_segments, name) ==
    LET ts == type_segments
        direct == IF ts.some
                  THEN resolve_by_suffix(fi.methods, ts.segments \o <<name>>)
                  ELSE None
        scoped == IF ts.some /\ ~ts.is_scoped
                  THEN resolve_by_suffix(fi.methods, module_path \o ts.segments \o <<name>>)
                  ELSE None
    IN  IF direct # None THEN direct
        ELSE IF scoped # None THEN scoped
        ELSE resolve_by_unique_name(fi.methods, name)

call_candidates(fi, mode, module_path, self_type_segments, call) ==
    IF call.tag = "Path"
    THEN resolve_callee_path_candidates(fi, mode, call.segments, module_path)
    ELSE resolve_callee_method_candidates(fi, mode, call.name, module_path,
                                          self_type_segments)

\* a variant that emits the edges as runtime calls
add_call_edges_runtime(st, fi, mode, caller_id, module_path, self_type_segments, calls) ==
    LET one_call(acc, call) ==
            LET candidates == call_candidates(fi, mode, module_path,
                                              self_type_segments, call)
            IN  Fold2(LAMBDA a, callee_id :
                          IF caller_id = callee_id THEN a
                          ELSE push_edge(a, caller_id, callee_id, "CallsRuntime",
                                         "Runtime"),
                      acc, SetToSeq(DOMAIN candidates))
    IN  Fold2(one_call, st, calls)

\* SourceParser::add_call_edges
add_call_edges(st, fi, mode, caller_id, module_path, self_type_segments, calls) ==
    LET one_call(acc, call) ==
            LET candidates == call_candidates(fi, mode, module_path,
                                              self_type_segments, call)
            IN  Fold2(LAMBDA a, callee_id :
                          IF caller_id = callee_id THEN a
                          ELSE push_edge(a, caller_id, callee_id, "CallsStatic",
                                         candidates[callee_id]),
                      acc, SetToSeq(DOMAIN candidates))
    IN  Fold2(one_call, st, calls)

handle_fn(st, fi, mode, item_fn, module_path) ==
    LET caller_id == resolve_free_fn_caller(fi, module_path, item_fn.name)
    IN  IF caller_id = None THEN st
        ELSE add_call_edges(st, fi, mode, caller_id, module_path, NoType, item_fn.calls)

\* item_impl.self_ty: the segments of a path type, or None for any other type
handle_impl(st, fi, mode, item_impl, module_path) ==
    LET resolved == IF item_impl.self_ty # None
                    THEN resolve_type_segments(item_impl.self_ty, module_path)
                    ELSE NoType
        type_segments == IF resolved.some /\ resolved.segments # <<>>
                         THEN resolved ELSE NoType
        one(acc, impl_fn) ==
            LET caller_id == resolve_method_caller(fi, module_path, type_segments,
                                                   impl_fn.name)
            IN  IF caller_id = None THEN acc
                ELSE add_call_edges(acc, fi, mode, caller_id, module_path,
                                    type_segments, impl_fn.calls)
    IN  Fold2(one, st, item_impl.fns)

handle_trait(st, fi, mode, item_trait, module_path) ==
    LET trait_segments == resolve_type_segments(<<item_trait.name>>, module_path)
        one(acc, trait_fn) ==
            LET caller_id == resolve_method_caller(fi, module_path, trait_segments,
                                                   trait_fn.name)
            IN  IF ~trait_fn.has_body \/ caller_id = None THEN acc
                ELSE add_call_edges(acc, fi, mode, caller_id, module_path,
                                    trait_segments, trait_fn.calls)
    IN  Fold2(one, st, item_trait.fns)

(***************************************************************************)
(* Source files and module traversal                                       *)
(***************************************************************************)
\* syn items, reduced to what SourceParser reads
ItemFn(name, calls) == [tag |-> "Fn", name |-> name, calls |-> calls]
ImplFn(name, calls) == [name |-> name, has_body |-> TRUE, calls |-> calls]
ItemImpl(self_ty, fns) == [tag |-> "Impl", self_ty |-> self_ty, fns |-> fns]
ItemTrait(name, fns) == [tag |-> "Trait", name |-> name, fns |-> fns]
ModInline(name, items) ==
    [tag |-> "Mod", name |-> name, content |-> TRUE, items |-> items,
     path_override |-> None]
ModFile(name, path_override) ==
    [tag |-> "Mod", name |-> name, content |-> FALSE, items |-> <<>>,
     path_override |-> path_override]
CallPath(segments) == [tag |-> "Path", segments |-> segments]
CallMethod(name) == [tag |-> "Method", name |-> name]

EmptyMap == [x \in {} |-> x]

\* the content of a file of the provider: the items syn::parse_file yields,
\* or a text syn::parse_file rejects
File(items) == [parsable |-> TRUE, items |-> items]
Unparsable == [parsable |-> FALSE, items |-> <<>>]

\* A path is the sequence of its tokens: names, and the separators "/" and
\* "\\" as written.  Only "/" separates components (Unix); a "\\" is part
\* of a name until the in-memory provider normalizes it.
normalize_memory_key(path) ==
    [i \in 1..Len(path) |-> IF path[i] = "\\" THEN "/" ELSE path[i]]

normalize_memory_path(path) ==
    [i \in 1..Len(path) |-> IF path[i] = "\\" THEN "/" ELSE path[i]]

\* MemorySourceProvider::new: the tables `collect` may build from `files`;
\* of two keys that normalize to one, the HashMap iteration decides which
\* content stays
MemorySourceProvider_new(files) ==
    {f \in [{normalize_memory_key(k) : k \in DOMAIN files}
               -> {files[k] : k \in DOMAIN files}] :
        \A key \in DOMAIN f :
            \E k \in DOMAIN files : normalize_memory_key(k) = key /\ f[key] = files[k]}

\* Result<String, RustdocError> of read_file
read_file(provider, path) ==
    LET key == normalize_memory_path(path)
    IN  IF key \in DOMAIN provider
        THEN [ok |-> TRUE, content |-> provider[key], error |-> "None"]
        ELSE [ok |-> FALSE, content |-> Unparsable, error |-> "Io"]

\* a variant that looks the path up as it is written
file_exists_exact(provider, path) ==
    path \in DOMAIN provider

file_exists(provider, path) ==
    LET key == normalize_memory_path(path)
    IN  key \in DOMAIN provider

\* Path::parent, or "" when the path has no parent
parent(path) ==
    LET seps == {i \in 1..Len(path) : path[i] = "/"}
    IN  IF seps = {} THEN <<>>
        ELSE SubSeq(path, 1, (CHOOSE i \in seps : \A j \in seps : j <= i) - 1)

is_absolute(path) == path # <<>> /\ path[1] = "/"

\* Path::join
join(dir, rel) ==
    IF is_absolute(rel) \/ dir = <<>> THEN rel ELSE dir \o <<"/">> \o rel

\* the #[path] override may be absolute (then it starts with "/")
\* a variant that tries the sibling file before the override
resolve_module_file_sibling_first(current_dir, item_mod, provider) ==
    LET over == item_mod.path_override
        full_path == IF is_absolute(over) THEN over ELSE join(current_dir, over)
        candidate == join(current_dir, <<item_mod.name \o ".rs">>)
        mod_rs == join(join(current_dir, <<item_mod.name>>), <<"mod.rs">>)
    IN  IF file_exists(provider, candidate) THEN candidate
        ELSE IF over # None /\ file_exists(provider, full_path) THEN full_path
        ELSE IF file_exists(provider, mod_rs) THEN mod_rs
        ELSE None

resolve_module_file(current_dir, item_mod, provider) ==
    LET over == item_mod.path_override
        full_path == IF is_absolute(over) THEN over ELSE join(current_dir, over)
        candidate == join(current_dir, <<item_mod.name \o ".rs">>)
        mod_rs == join(join(current_dir, <<item_mod.name>>), <<"mod.rs">>)
    IN  IF over # None /\ file_exists(provider, full_path) THEN full_path
        ELSE IF file_exists(provider, candidate) THEN candidate
        ELSE IF file_exists(provider, mod_rs) THEN mod_rs
        ELSE None

\* SourceParser state: [visited_files, stack, error]; a stack frame is a
\* running parse_items call: [items, module_path, current_dir]
NewParser == [visited_files |-> {}, stack |-> <<>>, error |-> "None",
              source_provider |-> EmptyMap]

SourceParser_new(source_provider) ==
    [NewParser EXCEPT !.source_provider = source_provider]

\* a variant without the visited set
parse_module_file_revisit(ps, provider, path, module_path) ==
    LET content == read_file(provider, path)
    IN  IF ~content.ok THEN [ps EXCEPT !.error = "Io"]
        ELSE IF ~content.content.parsable THEN [ps EXCEPT !.error = "Syn"]
        ELSE [ps EXCEPT !.stack =
                 <<[items |-> content.content.items, module_path |-> module_path,
                    current_dir |-> parent(path)]>> \o @]

\* a variant that takes a file syn rejects for an empty one
parse_module_file_lenient(ps, provider, path, module_path) ==
    IF path \in ps.visited_files THEN ps
    ELSE LET ps1 == [ps EXCEPT !.visited_files = @ \cup {path}]
             content == read_file(provider, path)
         IN  IF ~content.ok THEN [ps1 EXCEPT !.error = "Io"]
             ELSE [ps1 EXCEPT !.stack =
                      <<[items |-> content.content.items, module_path |-> module_path,
                         current_dir |-> parent(path)]>> \o @]

parse_module_file(ps, provider, path, module_path) ==
    IF path \in ps.visited_files THEN ps
    ELSE LET ps1 == [ps EXCEPT !.visited_files = @ \cup {path}]
             content == read_file(provider, path)
         IN  IF ~content.ok THEN [ps1 EXCEPT !.error = "Io"]
             ELSE IF ~content.content.parsable THEN [ps1 EXCEPT !.error = "Syn"]
             ELSE [ps1 EXCEPT !.stack =
                      <<[items |-> content.content.items, module_path |-> module_path,
                         current_dir |-> parent(path)]>> \o @]

\* handle_mod for the item at the head of the top frame (already popped)
handle_mod(ps, provider, item_mod, module_path, current_dir) ==
    LET next_path == module_path \o <<item_mod.name>>
        module_file == resolve_module_file(current_dir, item_mod, provider)
    IN  IF item_mod.content
        THEN [ps EXCEPT !.stack =
                 <<[items |-> item_mod.items, module_path |-> next_path,
                    current_dir |-> current_dir]>> \o @]
        ELSE IF module_file # None
             THEN parse_module_file(ps, provider, module_file, next_path)
             ELSE ps

(***************************************************************************)
(* Workspace merge (load_workspace_graph)                                  *)
(***************************************************************************)
node_completeness_score(node) ==
      (IF "span" \in node.has THEN 1 ELSE 0)
    + (IF "fields" \in node.has THEN 2 ELSE 0)
    + (IF "variants" \in node.has THEN 2 ELSE 0)
    + (IF "signature" \in node.has THEN 2 ELSE 0)
    + (IF "generics" \in node.has THEN 1 ELSE 0)
    + (IF "docs" \in node.has THEN 1 ELSE 0)
    + (IF "attrs" \in node.has THEN 1 ELSE 0)
    + (IF node.visibility # "Unknown" THEN 1 ELSE 0)

\* A plausible slip: an equal score replaces the existing node too.
node_is_more_complete_or_equal(new, existing) ==
    IF ~new.is_external /\ existing.is_external THEN TRUE
    ELSE IF new.is_external /\ ~existing.is_external THEN FALSE
    ELSE node_completeness_score(new) >= node_completeness_score(existing)

node_is_more_complete(new, existing) ==
    IF ~new.is_external /\ existing.is_external THEN TRUE
    ELSE IF new.is_external /\ ~existing.is_external THEN FALSE
    ELSE node_completeness_score(new) > node_completeness_score(existing)

\* a bag as a sequence holding each element as often as the bag does
BagToSeq(b) ==
    LET RECURSIVE rep(_, _)
        rep(x, n) == IF n = 0 THEN <<>> ELSE <<x>> \o rep(x, n - 1)
    IN  Fold2(LAMBDA acc, x : acc \o rep(x, CopiesIn(x, b)), <<>>, SetToSeq(BagToSet(b)))

\* `for node in graph.nodes` (lines 235-248); nodes_by_id as a function

merge_nodes(by_id, nodes) ==
    Fold2(LAMBDA m, node :
              IF node.id \notin DOMAIN m
              THEN [id \in DOMAIN m \cup {node.id} |-> IF id = node.id THEN node ELSE m[id]]
              ELSE IF node_is_more_complete(node, m[node.id])
                   THEN [m EXCEPT ![node.id] = node]
                   ELSE m,
          by_id, BagToSeq(nodes))

\* `for edge in graph.edges` (lines 251-256); acc = [keys, edges]
merge_edges(acc, graph_edges) ==
    Fold2(LAMBDA a, edge :
              IF EdgeKey(edge) \in a.keys THEN a
              ELSE [keys |-> a.keys \cup {EdgeKey(edge)},
                    edges |-> a.edges (+) SetToBag({edge})],
          acc, BagToSeq(graph_edges))

\* A plausible slip: the package is read from the last segment of the ID.
node_crate_last(id) == id[Len(id)]

node_crate(id) == id[1]

BagFilter(b, keep(_)) ==
    Fold2(LAMBDA acc, x : IF keep(x) THEN acc (+) (x :> CopiesIn(x, b)) ELSE acc,
          EmptyBag, SetToSeq(BagToSet(b)))

\* A plausible slip: only the members that own a node get a CrateGraph.
partition_nonempty(by_id, all_edges, workspace_members, crate_versions) ==
    LET all_nodes == BagOf(LAMBDA id : by_id[id], DOMAIN by_id)
        crate_nodes(cn) == BagFilter(all_nodes, LAMBDA n : node_crate(n.id) = cn)
        crate_edges(cn) == BagFilter(all_edges, LAMBDA e : node_crate(e.from) = cn
                                                           /\ node_crate(e.to) = cn)
        node_crates == {node_crate(id) : id \in DOMAIN by_id}
        crate_graph(member) ==
            [id |-> member, name |-> member,
             version |-> IF member \in DOMAIN crate_versions
                         THEN crate_versions[member] ELSE "0.0.0",
             nodes |-> crate_nodes(member), edges |-> crate_edges(member)]
        external(ext_name) ==
            [id |-> ext_name, name |-> ext_name, nodes |-> crate_nodes(ext_name)]
    IN  [crates |-> BagOf(crate_graph, workspace_members \cap node_crates),
         external_crates |-> BagOf(external, node_crates \ workspace_members),
         cross_crate_edges |-> BagFilter(all_edges,
                                  LAMBDA e : node_crate(e.from) # node_crate(e.to))]

\* lines 259-330: the Workspace built from the merged nodes and edges
partition(by_id, all_edges, workspace_members, crate_versions) ==
    LET all_nodes == BagOf(LAMBDA id : by_id[id], DOMAIN by_id)
        crate_nodes(cn) == BagFilter(all_nodes, LAMBDA n : node_crate(n.id) = cn)
        crate_edges(cn) == BagFilter(all_edges, LAMBDA e : node_crate(e.from) = cn
                                                           /\ node_crate(e.to) = cn)
        node_crates == {node_crate(id) : id \in DOMAIN by_id}
        crate_graph(member) ==
            [id |-> member, name |-> member,
             version |-> IF member \in DOMAIN crate_versions
                         THEN crate_versions[member] ELSE "0.0.0",
             nodes |-> crate_nodes(member), edges |-> crate_edges(member)]
        external(ext_name) ==
            [id |-> ext_name, name |-> ext_name, nodes |-> crate_nodes(ext_name)]
    IN  [crates |-> BagOf(crate_graph, workspace_members),
         external_crates |-> BagOf(external, node_crates \ workspace_members),
         cross_crate_edges |-> BagFilter(all_edges,
                                  LAMBDA e : node_crate(e.from) # node_crate(e.to))]

(***************************************************************************)
(* Inputs: API descriptions with their sources.  c is the package the      *)
(* description is generated for, o the package its external_crates table   *)
(* names under crate_id 1.                                                 *)
(***************************************************************************)
RootFile == <<"src", "/", "lib.rs">>
NoSource == RootFile :> File(<<>>)

Crate(c, paths, index, external_crates, source_files) ==
    [crate_name |-> c, paths |-> paths, index |-> index,
     external_crates |-> external_crates, root_file |-> RootFile,
     source_files |-> source_files]

\* a module with a struct, a trait with one method, a trait impl and an
\* inherent impl that list the same associated function
DocImpl(c, o) ==
    Crate(c,
          (1 :> Summary(<<c, "m">>, "Module", 0))
          @@ (2 :> Summary(<<c, "m", "S">>, "Struct", 0))
          @@ (3 :> Summary(<<"T">>, "Trait", 0))
          @@ (41 :> Summary(<<c, "T", "g">>, "Function", 0)),
          (1 :> [Item(1, 0, "Module") EXCEPT !.items = <<2, 20, 21>>])
          @@ (2 :> [Item(2, 0, "Struct") EXCEPT !.fields = TRUE,
                        !.attrs = <<[derive |-> <<<<"T">>>>]>>])
          @@ (3 :> [Item(3, 0, "Trait") EXCEPT !.items = <<41>>])
          @@ (20 :> [Item(20, 0, "Impl") EXCEPT !.trait_ = 3, !.for_ = ResolvedPath(2),
                         !.items = <<40>>])
          @@ (21 :> [Item(21, 0, "Impl") EXCEPT !.for_ = ResolvedPath(2),
                         !.items = <<40>>])
          @@ (40 :> [Item(40, 0, "Function") EXCEPT !.name = "g"]),
          EmptyMap, NoSource)

\* a blanket impl of an external trait, an impl of that trait for a struct
\* listed by two modules, an impl of a trait the paths table does not hold
DocBlanket(c, o) ==
    Crate(c,
          (1 :> Summary(<<c, "m">>, "Module", 0))
          @@ (8 :> Summary(<<c, "n">>, "Module", 0))
          @@ (2 :> Summary(<<c, "S">>, "Struct", 0))
          @@ (7 :> Summary(<<o, "E">>, "Trait", 1)),
          (1 :> [Item(1, 0, "Module") EXCEPT !.items = <<22>>])
          @@ (8 :> [Item(8, 0, "Module") EXCEPT !.items = <<22>>])
          @@ (21 :> [Item(21, 1, "Impl") EXCEPT !.trait_ = 7, !.items = <<40>>])
          @@ (22 :> [Item(22, 0, "Impl") EXCEPT !.trait_ = 7, !.for_ = ResolvedPath(2)])
          @@ (23 :> [Item(23, 0, "Impl") EXCEPT !.trait_ = 9, !.for_ = ResolvedPath(2)])
          @@ (40 :> [Item(40, 1, "Function") EXCEPT !.name = "g"]),
          1 :> o, NoSource)

\* a constant of a struct type, a struct with a field of a hidden type, a
\* function and a module of the same name, and an external trait
DocConst(c, o) ==
    Crate(c,
          (2 :> Summary(<<c, "S">>, "Struct", 0))
          @@ (7 :> Summary(<<o, "E">>, "Trait", 1))
          @@ (5 :> Summary(<<c, "X">>, "Constant", 0))
          @@ (6 :> Summary(<<c, "__p", "H">>, "Struct", 0))
          @@ (42 :> Summary(<<c, "g">>, "Function", 0))
          @@ (43 :> Summary(<<c, "g">>, "Module", 0)),
          (2 :> [Item(2, 0, "Struct") EXCEPT !.types = <<BorrowedRef(ResolvedPath(6))>>])
          @@ (5 :> [Item(5, 0, "Constant") EXCEPT !.types = <<ResolvedPath(2)>>])
          @@ (42 :> [Item(42, 0, "Function") EXCEPT !.types = <<ResolvedPath(2)>>]),
          1 :> o, NoSource)

\* a module that re-exports itself and a function of a nested module
DocReexport(c, o) ==
    Crate(c,
          (0 :> Summary(<<c>>, "Module", 0))
          @@ (1 :> Summary(<<c, "m">>, "Module", 0))
          @@ (9 :> Summary(<<c, "m", "n">>, "Module", 0))
          @@ (4 :> Summary(<<c, "m", "n", "f">>, "Function", 0)),
          (0 :> [Item(0, 0, "Module") EXCEPT !.items = <<1>>])
          @@ (1 :> [Item(1, 0, "Module") EXCEPT !.items = <<30, 31, 4>>])
          @@ (30 :> [Item(30, 0, "Use") EXCEPT !.target = 1])
          @@ (31 :> [Item(31, 0, "Use") EXCEPT !.target = 4])
          @@ (4 :> Item(4, 0, "Function")),
          EmptyMap, NoSource)

\* the package that defines the trait E the others know as external
DocExt(c, o) ==
    Crate(c,
          7 :> Summary(<<c, "E">>, "Trait", 0),
          7 :> [Item(7, 0, "Trait") EXCEPT !.docs = TRUE, !.generics = TRUE],
          EmptyMap, NoSource)

\* functions of one name in two modules, and their callers
DocCalls(c, o) ==
    Crate(c,
          (50 :> Summary(<<c, "m", "a">>, "Function", 0))
          @@ (51 :> Summary(<<c, "m", "b">>, "Function", 0))
          @@ (52 :> Summary(<<c, "n", "b">>, "Function", 0))
          @@ (53 :> Summary(<<c, "k", "run">>, "Function", 0))
          @@ (54 :> Summary(<<c, "m", "S", "go">>, "Function", 0)),
          20 :> [Item(20, 0, "Impl") EXCEPT !.items = <<54>>],
          EmptyMap,
          (RootFile :> File(<<
               ModInline("m", <<ItemFn("a", <<CallPath(<<"b">>)>>),
                                ItemFn("b", <<CallPath(<<"b">>),
                                              CallPath(<<"crate", "n", "b">>)>>),
                                ItemImpl(<<"S">>, <<ImplFn("go", <<CallPath(<<"a">>)>>)>>),
                                ItemTrait("T", <<ImplFn("go", <<>>)>>)>>),
               ModFile("n", None),
               ModInline("k", <<ItemFn("run", <<CallPath(<<"b">>),
                                                CallPath(<<"crate", "m", "a">>),
                                                CallMethod("b")>>)>>)>>))
          @@ (<<"src", "/", "n.rs">> :> File(<<ItemFn("b", <<>>)>>)))

\* functions of one name at three depths, called by anchored paths
DocScoped(c, o) ==
    Crate(c,
          (60 :> Summary(<<c, "p", "f">>, "Function", 0))
          @@ (61 :> Summary(<<c, "p", "q", "f">>, "Function", 0))
          @@ (62 :> Summary(<<c, "p", "q", "r", "go">>, "Function", 0)),
          EmptyMap, EmptyMap,
          RootFile :> File(<<
              ModInline("p", <<
                  ItemFn("f", <<CallPath(<<"super", "super", "f">>)>>),
                  ModInline("q", <<
                      ItemFn("f", <<>>),
                      ModInline("r", <<
                          ItemFn("go", <<CallPath(<<"super", "super", "f">>),
                                         CallPath(<<"crate", "f">>),
                                         CallPath(<<"crate", "p", "f">>)>>)>>)>>)>>)>>))

\* a struct deriving a unique bare name, a bare name two traits bear, a
\* qualified name of a trait and a qualified name of none; the unique trait
\* is external and the index holds its item, which bears an attribute
DocDerive(c, o) ==
    Crate(c,
          (2 :> Summary(<<c, "S">>, "Struct", 0))
          @@ (3 :> Summary(<<c, "m", "T">>, "Trait", 0))
          @@ (4 :> Summary(<<c, "n", "T">>, "Trait", 0))
          @@ (7 :> Summary(<<o, "E">>, "Trait", 1)),
          (2 :> [Item(2, 0, "Struct") EXCEPT
                    !.attrs = <<[derive |-> <<<<"E">>, <<"T">>, <<c, "m", "T">>,
                                              <<"x", "Q">>>>]>>])
          @@ (7 :> [Item(7, 1, "Trait") EXCEPT !.attrs = <<[derive |-> <<>>]>>]),
          1 :> o, NoSource)

\* a package whose module file does not parse
DocBroken(c, o) ==
    Crate(c,
          (50 :> Summary(<<c, "f">>, "Function", 0))
          @@ (51 :> Summary(<<c, "g">>, "Function", 0)),
          EmptyMap, EmptyMap,
          (RootFile :> File(<<ItemFn("f", <<CallPath(<<"g">>)>>), ModFile("n", None),
                              ItemFn("g", <<CallPath(<<"f">>)>>)>>))
          @@ (<<"src", "/", "n.rs">> :> Unparsable))

\* a source map that lacks the root file
DocNoRoot(c, o) ==
    Crate(c,
          50 :> Summary(<<c, "f">>, "Function", 0),
          EmptyMap, EmptyMap,
          <<"src", "/", "n.rs">> :> File(<<ItemFn("f", <<>>)>>))

\* module files: an override that wins over a sibling file, a missing
\* override with a `mod.rs` fallback, a module without a file, a module that
\* declares the root again, and one file declared under two spellings; the
\* source map holds that file under both path conventions.  Module m has a
\* function h and module x a function f the description does not list.
DocFiles(c, o) ==
    Crate(c,
          (70 :> Summary(<<c, "m", "f">>, "Function", 0))
          @@ (71 :> Summary(<<c, "k", "f">>, "Function", 0))
          @@ (72 :> Summary(<<c, "k", "h">>, "Function", 0)),
          EmptyMap, EmptyMap,
          (RootFile :> File(<<ModInline("x", <<ItemFn("f", <<CallPath(<<"crate", "k", "h">>)>>)>>),
                              ModFile("m", <<"alt.rs">>),
                              ModFile("k", <<"gone.rs">>),
                              ModFile("z", None),
                              ModFile("again", <<"k", "\\", "mod.rs">>)>>))
          @@ (<<"src", "/", "alt.rs">> :>
                  File(<<ItemFn("f", <<CallPath(<<"k", "f">>)>>),
                         ItemFn("h", <<CallPath(<<"f">>)>>),
                         ModFile("back", <<"lib.rs">>)>>))
          @@ (<<"src", "/", "m.rs">> :>
                  File(<<ItemFn("f", <<CallPath(<<"crate", "k", "h">>)>>)>>))
          @@ (<<"src", "\\", "k", "\\", "mod.rs">> :>
                  File(<<ItemFn("f", <<CallPath(<<"crate", "m", "f">>)>>),
                         ItemFn("h", <<CallPath(<<"f">>)>>)>>))
          @@ (<<"src", "/", "k", "/", "mod.rs">> :>
                  File(<<ItemFn("f", <<>>)>>)))

Variants ==
    {"impl", "blanket", "const", "reexport", "ext", "calls", "scoped", "derive", "broken",
     "noroot", "files"}

Doc(c, o, v) ==
    CASE v = "impl" -> DocImpl(c, o)
      [] v = "blanket" -> DocBlanket(c, o)
      [] v = "const" -> DocConst(c, o)
      [] v = "reexport" -> DocReexport(c, o)
      [] v = "ext" -> DocExt(c, o)
      [] v = "calls" -> DocCalls(c, o)
      [] v = "scoped" -> DocScoped(c, o)
      [] v = "derive" -> DocDerive(c, o)
      [] v = "broken" -> DocBroken(c, o)
      [] v = "files" -> DocFiles(c, o)
      [] OTHER -> DocNoRoot(c, o)

(***************************************************************************)
(* Bounds and input sets                                                   *)
(***************************************************************************)
\* the number of API descriptions load_workspace_graph is given
MaxJsons == 2

\* the deepest nesting of parse_items calls the traversal is followed to
MaxDepth == 6

CrateNames == {"a", "b", "c"}

VariantsOf(c) ==
    CASE c = "a" -> Variants
      [] c = "b" -> {"ext", "impl"}
      [] OTHER -> {"ext"}

OtherCrate(c) == IF c = "b" THEN "a" ELSE "b"

Entries == {[crate_name |-> c, variant |-> v] : c \in CrateNames, v \in Variants}

JsonLists ==
    UNION {{s \in [1..n -> Entries] :
              /\ \A i \in 1..n : s[i].variant \in VariantsOf(s[i].crate_name)
              /\ \A i, j \in 1..n : i # j => s[i].crate_name # s[j].crate_name}
           : n \in 1..MaxJsons}

MemberSets == {{"a"}, {"a", "b"}}

\* the description being extracted
krate == Doc(Head(jsons).crate_name, OtherCrate(Head(jsons).crate_name),
             Head(jsons).variant)

crate_versions == [m \in members |-> "0.1.0"]

NoWorkspace ==
    [crates |-> EmptyBag, external_crates |-> EmptyBag, cross_crate_edges |-> EmptyBag]

\* the build state of build_graph as one record, and back
St == [nodes |-> graph.nodes, edges |-> graph.edges,
       node_cache |-> node_cache, edge_cache |-> edge_cache]

SetSt(st) ==
    /\ graph' = [nodes |-> st.nodes, edges |-> st.edges]
    /\ node_cache' = st.node_cache
    /\ edge_cache' = st.edge_cache

function_index == build_function_index(krate, collect_method_ids(krate), krate.crate_name)

(***************************************************************************)
(* State machine                                                           *)
(***************************************************************************)
Init ==
    /\ pc = "load"
    /\ jsons \in JsonLists
    /\ members \in MemberSets
    /\ call_mode \in {"Strict", "Ambiguous"}
    /\ todo = {}
    /\ graph = [nodes |-> EmptyBag, edges |-> EmptyBag]
    /\ node_cache = {}
    /\ edge_cache = {}
    /\ nodes_by_id = EmptyMap
    /\ edge_keys = {}
    /\ edges = EmptyBag
    /\ workspace = NoWorkspace
    /\ item_to_parent = EmptyMap
    /\ parser = NewParser

\* load_workspace_graph takes the next description; build_graph starts
BeginBuild ==
    /\ pc = "load"
    /\ jsons # <<>>
    /\ SetSt(ensure_crate_node(NewBuild, krate.crate_name, "Public",
                               krate.crate_name \notin members))
    /\ todo' = DOMAIN krate.paths
    /\ item_to_parent' = EmptyMap
    /\ parser' = NewParser
    /\ pc' = "paths"
    /\ UNCHANGED <<jsons, members, call_mode, nodes_by_id, edge_keys, edges, workspace>>

\* one iteration of the loop over krate.paths
PathsEntry(item_id) ==
    /\ pc = "paths"
    /\ item_id \in todo
    /\ SetSt(paths_entry(St, krate, krate.crate_name, members, item_id))
    /\ todo' = todo \ {item_id}
    /\ UNCHANGED <<pc, jsons, members, call_mode, nodes_by_id, edge_keys, edges,
                   workspace, item_to_parent, parser>>

\* item_to_parent is built and the re-export edges are added
UseImports ==
    /\ pc = "paths"
    /\ todo = {}
    /\ \E parent_map \in ParentMaps(krate) :
          /\ item_to_parent' = parent_map
          /\ SetSt(add_use_import_edges_with_parent_map(St, krate, krate.crate_name,
                                                        parent_map))
    /\ todo' = DOMAIN krate.index
    /\ pc' = "index"
    /\ UNCHANGED <<jsons, members, call_mode, nodes_by_id, edge_keys, edges,
                   workspace, parser>>

\* one iteration of the loop over krate.index
IndexItem(id) ==
    /\ pc = "index"
    /\ id \in todo
    /\ SetSt(index_item(St, krate, krate.crate_name, members, item_to_parent, id))
    /\ todo' = todo \ {id}
    /\ UNCHANGED <<pc, jsons, members, call_mode, nodes_by_id, edge_keys, edges,
                   workspace, item_to_parent, parser>>

\* add_call_edges (fn): the parser is made and the root file is parsed
BeginCalls ==
    /\ pc = "index"
    /\ todo = {}
    /\ \E provider \in MemorySourceProvider_new(krate.source_files) :
          LET ps == parse_module_file(SourceParser_new(provider), provider,
                                      krate.root_file, <<>>)
          IN  /\ parser' = ps
              /\ pc' = IF ps.error # "None" THEN "error" ELSE "calls"
    /\ UNCHANGED <<jsons, members, call_mode, todo, graph, node_cache, edge_cache,
                   nodes_by_id, edge_keys, edges, workspace, item_to_parent>>

\* the frames of parse_items: the innermost running call and its next item
top_frame == Head(parser.stack)
next_item == Head(top_frame.items)
advanced == [parser EXCEPT !.stack =
                <<[top_frame EXCEPT !.items = Tail(@)]>> \o Tail(@)]

\* parse_items handles a fn, an impl or a trait
ParseItem ==
    /\ pc = "calls"
    /\ parser.stack # <<>>
    /\ top_frame.items # <<>>
    /\ next_item.tag # "Mod"
    /\ SetSt(CASE next_item.tag = "Fn" ->
                    handle_fn(St, function_index, call_mode, next_item,
                              top_frame.module_path)
               [] next_item.tag = "Impl" ->
                    handle_impl(St, function_index, call_mode, next_item,
                                top_frame.module_path)
               [] next_item.tag = "Trait" ->
                    handle_trait(St, function_index, call_mode, next_item,
                                 top_frame.module_path)
               [] OTHER -> St)
    /\ parser' = advanced
    /\ UNCHANGED <<pc, jsons, members, call_mode, todo, nodes_by_id, edge_keys, edges,
                   workspace, item_to_parent>>

\* parse_items handles a mod: an inline body or a module file
HandleMod ==
    /\ pc = "calls"
    /\ parser.stack # <<>>
    /\ top_frame.items # <<>>
    /\ next_item.tag = "Mod"
    /\ Len(parser.stack) < MaxDepth
    /\ LET ps == handle_mod(advanced, parser.source_provider, next_item,
                            top_frame.module_path, top_frame.current_dir)
       IN  /\ parser' = ps
           /\ pc' = IF ps.error # "None" THEN "error" ELSE "calls"
    /\ UNCHANGED <<jsons, members, call_mode, todo, graph, node_cache, edge_cache,
                   nodes_by_id, edge_keys, edges, workspace, item_to_parent>>

\* a parse_items call has no item left and returns
EndItems ==
    /\ pc = "calls"
    /\ parser.stack # <<>>
    /\ top_frame.items = <<>>
    /\ parser' = [parser EXCEPT !.stack = Tail(@)]
    /\ UNCHANGED <<pc, jsons, members, call_mode, todo, graph, node_cache, edge_cache,
                   nodes_by_id, edge_keys, edges, workspace, item_to_parent>>

\* build_graph returns Ok(graph)
EndBuild ==
    /\ pc = "calls"
    /\ parser.stack = <<>>
    /\ pc' = "built"
    /\ UNCHANGED <<jsons, members, call_mode, todo, graph, node_cache, edge_cache,
                   nodes_by_id, edge_keys, edges, workspace, item_to_parent, parser>>

\* the graph is merged into nodes_by_id and edges (lines 234-256)
MergeGraph ==
    /\ pc = "built"
    /\ nodes_by_id' = merge_nodes(nodes_by_id, graph.nodes)
    /\ LET merged == merge_edges([keys |-> edge_keys, edges |-> edges], graph.edges)
       IN  /\ edge_keys' = merged.keys
           /\ edges' = merged.edges
    /\ jsons' = Tail(jsons)
    /\ pc' = "load"
    /\ UNCHANGED <<members, call_mode, todo, graph, node_cache, edge_cache, workspace,
                   item_to_parent, parser>>

\* every description is merged: the Workspace is built (lines 259-330)
Partition ==
    /\ pc = "load"
    /\ jsons = <<>>
    /\ workspace' = partition(nodes_by_id, edges, members, crate_versions)
    /\ pc' = "done"
    /\ UNCHANGED <<jsons, members, call_mode, todo, graph, node_cache, edge_cache,
                   nodes_by_id, edge_keys, edges, item_to_parent, parser>>

Next ==
    \/ BeginBuild
    \/ \E item_id \in todo : PathsEntry(item_id)
    \/ UseImports
    \/ \E id \in todo : IndexItem(id)
    \/ BeginCalls
    \/ ParseItem
    \/ HandleMod
    \/ EndItems
    \/ EndBuild
    \/ MergeGraph
    \/ Partition

Spec == Init /\ [][Next]_vars

(***************************************************************************)
(* Views of the emitted graphs                                             *)
(***************************************************************************)
\* the graph build_graph has returned
Built == pc = "built"
\* the Workspace load_workspace_graph has returned
Done == pc = "done"

Ids(nodes) == {n.id : n \in BagToSet(nodes)}

BagSum(bags) == Fold2(LAMBDA acc, b : acc (+) b, EmptyBag, bags)

\* the nodes of crates and external_crates combined
WorkspaceNodes ==
    BagSum([i \in 1..Len(BagToSeq(workspace.crates)) |->
                BagToSeq(workspace.crates)[i].nodes])
    (+) BagSum([i \in 1..Len(BagToSeq(workspace.external_crates)) |->
                BagToSeq(workspace.external_crates)[i].nodes])

\* the edges of every crate's edge list and of cross_crate_edges
WorkspaceEdges ==
    BagSum([i \in 1..Len(BagToSeq(workspace.crates)) |->
                BagToSeq(workspace.crates)[i].edges])
    (+) workspace.cross_crate_edges

EndpointsPresent(nodes, es) ==
    \A e \in BagToSet(es) : e.from \in Ids(nodes) /\ e.to \in Ids(nodes)

TriplesUnique(es) ==
    /\ \A e \in BagToSet(es) : CopiesIn(e, es) = 1
    /\ \A e1, e2 \in BagToSet(es) : EdgeKey(e1) = EdgeKey(e2) => e1 = e2

IdsUnique(nodes) ==
    /\ \A n \in BagToSet(nodes) : CopiesIn(n, nodes) = 1
    /\ \A n1, n2 \in BagToSet(nodes) : n1.id = n2.id => n1 = n2

\* the Contains edges as a set of <<parent, child>> pairs
ContainsPairs(es) == {<<e.from, e.to>> : e \in {x \in BagToSet(es) : x.kind = "Contains"}}

\* the IDs from which id is reached by one or more Contains edges
RECURSIVE AncestorsUpTo(_, _, _)
AncestorsUpTo(pairs, frontier, n) ==
    LET up == {p[1] : p \in {q \in pairs : q[2] \in frontier}}
    IN  IF n = 0 \/ up = {} THEN {}
        ELSE up \cup AncestorsUpTo(pairs, up, n - 1)

Ancestors(es, id) == AncestorsUpTo(ContainsPairs(es), {id}, Cardinality(ContainsPairs(es)))

ContainsForest(es) ==
    /\ \A p, q \in ContainsPairs(es) : p[2] = q[2] => p[1] = q[1]
    /\ \A p \in ContainsPairs(es) : p[2] \notin Ancestors(es, p[2])

(***************************************************************************)
(* C1.  In every graph returned by per-package extraction each edge's from *)
(* and to are IDs of nodes of that graph, and in every merged Workspace    *)
(* each edge of a crate's edges or of cross_crate_edges has both endpoints *)
(* among the nodes of crates and external_crates combined.                 *)
(***************************************************************************)
C1_EdgeEndpointsAreNodes ==
    /\ Built => EndpointsPresent(graph.nodes, graph.edges)
    /\ Done => EndpointsPresent(WorkspaceNodes, WorkspaceEdges)

(***************************************************************************)
(* C2.  No emitted edge of any kind is a self-loop: from differs from to,  *)
(* also when a module re-exports itself and when a function calls itself.  *)
(***************************************************************************)
C2_NoSelfLoops ==
    /\ \A e \in BagToSet(graph.edges) : e.from # e.to
    /\ Done => \A e \in BagToSet(WorkspaceEdges) : e.from # e.to

(***************************************************************************)
(* C3.  The triple (from, to, kind) occurs at most once in the graph under *)
(* construction after any sequence of emissions, at most once in the       *)
(* merged edge list, and at most once across all crates' edge lists and    *)
(* cross_crate_edges of the Workspace; emitting a triple that is present   *)
(* again leaves the edge list unchanged.                                   *)
(***************************************************************************)
C3_EdgeTriplesUnique ==
    /\ TriplesUnique(graph.edges)
    /\ \A e \in BagToSet(graph.edges) :
          \A confidence \in {"Static", "Inferred", "Runtime"} :
              push_edge(St, e.from, e.to, e.kind, confidence).edges = graph.edges
    /\ TriplesUnique(edges)
    /\ merge_edges([keys |-> edge_keys, edges |-> edges], edges).edges = edges
    /\ Done => TriplesUnique(WorkspaceEdges)

\* C3 witness: the graph just built holds a triple that an earlier graph has
\* already brought into the merged edge list.
C3_Witness_RepeatedTriple ==
    /\ Built
    /\ \E e \in BagToSet(graph.edges) : EdgeKey(e) \in edge_keys

(***************************************************************************)
(* C4.  No two nodes share an ID: in the per-package graph each ID occurs  *)
(* in exactly one node however many paths entries, module prefixes and     *)
(* impl blocks map to it (the IDs of the nodes are the IDs node_cache      *)
(* holds), and in the merged Workspace each ID occurs in at most one node  *)
(* across all crates and external crates.                                  *)
(***************************************************************************)
C4_NodeIdsUnique ==
    /\ IdsUnique(graph.nodes)
    /\ Ids(graph.nodes) = node_cache
    /\ Done => IdsUnique(WorkspaceNodes)

\* C4 witness: a graph is returned for a description with two paths entries
\* of one ID, and it shares a node ID with a graph merged before it.
C4_Witness_SharedId ==
    /\ Built
    /\ \E i, j \in DOMAIN krate.paths :
          /\ i # j
          /\ resolve_id(krate, krate.crate_name, i) = resolve_id(krate, krate.crate_name, j)
          /\ resolve_id(krate, krate.crate_name, i) \in Ids(graph.nodes)
    /\ \E id \in DOMAIN nodes_by_id : id \in Ids(graph.nodes)

(***************************************************************************)
(* C5.  The Contains edges of every emitted graph form a forest: no node   *)
(* has two distinct Contains parents and no cycle of Contains edges        *)
(* exists, whether or not a path repeats the package name as its first     *)
(* segment and whatever module lists an impl block.                        *)
(***************************************************************************)
C5_ContainsForest ==
    /\ ContainsForest(graph.edges)
    /\ Done => ContainsForest(WorkspaceEdges)

\* C5 witness: a graph is returned that holds an impl node under one of the
\* two modules that list it.
C5_Witness_ImplUnderModule ==
    /\ Built
    /\ \E c \in DOMAIN item_to_parent :
          /\ Cardinality(parents_of(krate, c)) > 1
          /\ \E p \in ContainsPairs(graph.edges) :
                p[2] = impl_node_id(krate.crate_name, c)

(***************************************************************************)
(* C6.  In the per-package graph and in the merged Workspace every node    *)
(* that is not a package node is reachable through Contains edges from     *)
(* exactly one package node, impl nodes, per-impl method nodes and nodes   *)
(* of external packages included.                                          *)
(***************************************************************************)
PackageRoots(nodes, es, id) ==
    {p \in Ids(nodes) : Len(p) = 1 /\ p \in Ancestors(es, id)}

ReachableFromOnePackage(nodes, es) ==
    \A n \in BagToSet(nodes) :
        n.kind # "Crate" => Cardinality(PackageRoots(nodes, es, n.id)) = 1

C6_ReachableFromOnePackage ==
    /\ Built => ReachableFromOnePackage(graph.nodes, graph.edges)
    /\ Done => ReachableFromOnePackage(WorkspaceNodes, WorkspaceEdges)

(***************************************************************************)
(* C7.  Every Method node of an extracted graph has parent_impl set to the *)
(* ID of an Impl node of the graph, and the graph holds a Defines edge     *)
(* from that impl node to the method node, for methods made from the paths *)
(* table as for per-impl method nodes.                                     *)
(***************************************************************************)
HasEdge(es, from, to, kind) ==
    \E e \in BagToSet(es) : e.from = from /\ e.to = to /\ e.kind = kind

C7_MethodsHaveParentImpl ==
    Built =>
        \A n \in BagToSet(graph.nodes) :
            n.kind = "Method" =>
                /\ n.parent_impl # None
                /\ \E m \in BagToSet(graph.nodes) :
                      m.id = n.parent_impl /\ m.kind = "Impl"
                /\ HasEdge(graph.edges, n.parent_impl, n.id, "Defines")

TraitImpls == {i \in DOMAIN krate.index :
                  krate.index[i].tag = "Impl" /\ krate.index[i].trait_ # NoId}

ImplNodeOf(i) ==
    impl_node_id(crate_name_for_id(krate, krate.index[i].crate_id, krate.crate_name), i)

ForResolves(i) == type_to_id(krate.index[i].for_) \in DOMAIN krate.paths
TraitResolves(i) == krate.index[i].trait_ \in DOMAIN krate.paths
ForId(i) == resolve_id(krate, krate.crate_name, type_to_id(krate.index[i].for_))
TraitId(i) == resolve_id(krate, krate.crate_name, krate.index[i].trait_)

Impls == {i \in DOMAIN krate.index : krate.index[i].tag = "Impl"}

\* the associated functions impl i lists that the index holds
ListedFns(i) ==
    {x \in Range(krate.index[i].items) :
        x \in DOMAIN krate.index /\ krate.index[x].tag = "Function"}

MethodsOf(i) ==
    {n \in BagToSet(graph.nodes) : n.kind = "Method" /\ n.parent_impl = ImplNodeOf(i)}

C9_OneMethodNodePerImpl ==
    Built =>
        /\ \A i, j \in Impls :
              i # j => /\ ImplNodeOf(i) # ImplNodeOf(j)
                       /\ ImplNodeOf(i) \in Ids(graph.nodes)
                       /\ {n.id : n \in MethodsOf(i)} \cap {n.id : n \in MethodsOf(j)} = {}
        /\ \A i \in Impls :
              /\ Cardinality(MethodsOf(i)) = Cardinality(ListedFns(i))
              /\ \A n \in MethodsOf(i) :
                    \A e \in BagToSet(graph.edges) :
                        (e.kind = "Defines" /\ e.to = n.id) => e.from = ImplNodeOf(i)
              /\ \A n \in MethodsOf(i) :
                    HasEdge(graph.edges, ImplNodeOf(i), n.id, "Defines")

\* C9 witness: a graph is returned for a description in which two impl
\* blocks list the same associated function, each with its method node.
C9_Witness_SharedAssocItem ==
    /\ Built
    /\ \E i, j \in Impls :
          /\ i # j
          /\ ListedFns(i) \cap ListedFns(j) # {}
          /\ MethodsOf(i) # {}
          /\ MethodsOf(j) # {}

(***************************************************************************)
(* Call sites and the candidate sets of the resolution rules               *)
(***************************************************************************)
\* the IDs of `entries` that end with "::" followed by the segments
SuffixMatches(entries, segments) ==
    IF segments = <<>> THEN {}
    ELSE {e.path : e \in {x \in BagToSet(entries) :
                            /\ Len(x.path) > Len(segments)
                            /\ \A k \in 1..Len(segments) :
                                  x.path[Len(x.path) - Len(segments) + k] = segments[k]}}

NameMatches(entries, name) == {e.path : e \in {x \in BagToSet(entries) : x.name = name}}

\* the candidate sets of the rules of a path call, in rule order
PathRuleSets(segments, module_path) ==
    LET a == split_path_anchor(segments)
        base == CASE a.anchor = "Crate" -> <<>>
                  [] a.anchor = "Super" ->
                        SubSeq(module_path, 1, IF Len(module_path) >= a.count
                                               THEN Len(module_path) - a.count ELSE 0)
                  [] OTHER -> module_path
        r1 == IF a.anchor = "Relative"
              THEN SuffixMatches(function_index.callables, a.rest) ELSE {}
        r2 == SuffixMatches(function_index.callables, base \o a.rest)
        r3 == IF r1 \cup r2 = {} /\ Len(a.rest) = 1 /\ a.anchor = "Relative"
              THEN NameMatches(function_index.callables, a.rest[1]) ELSE {}
    IN  IF a.rest = <<>> THEN <<>> ELSE <<r1, r2, r3>>

\* the candidate sets of the rules of a method call, in rule order
MethodRuleSets(name, module_path, ts) ==
    LET r1 == IF ts.some
              THEN SuffixMatches(function_index.methods, ts.segments \o <<name>>) ELSE {}
        r2 == IF ts.some /\ ~ts.is_scoped
              THEN SuffixMatches(function_index.methods,
                                 module_path \o ts.segments \o <<name>>)
              ELSE {}
        r3 == IF r1 \cup r2 = {} THEN NameMatches(function_index.methods, name) ELSE {}
    IN  <<r1, r2, r3>>

RuleSets(call, module_path, ts) ==
    IF call.tag = "Path" THEN PathRuleSets(call.segments, module_path)
    ELSE MethodRuleSets(call.name, module_path, ts)

\* the candidate set of a call site: the union of its rules' sets
CandidateSet(sets) == UNION Range(sets)

\* the members that are the only member of a rule's set
SingleMatches(sets) == {c \in CandidateSet(sets) : \E k \in 1..Len(sets) : sets[k] = {c}}

\* the call sites of the source item parse_items handles next:
\* [caller, sets] for every call of every body whose caller resolves
ImplSelf(item, module_path) ==
    LET resolved == IF item.self_ty # None
                    THEN resolve_type_segments(item.self_ty, module_path) ELSE NoType
    IN  IF resolved.some /\ resolved.segments # <<>> THEN resolved ELSE NoType

BodySites(caller, calls, module_path, ts) ==
    IF caller = None THEN {}
    ELSE {[caller |-> caller, sets |-> RuleSets(calls[k], module_path, ts)] :
             k \in 1..Len(calls)}

ItemSites(item, module_path) ==
    CASE item.tag = "Fn" ->
            BodySites(resolve_free_fn_caller(function_index, module_path, item.name),
                      item.calls, module_path, NoType)
      [] item.tag = "Impl" ->
            UNION {BodySites(resolve_method_caller(function_index, module_path,
                                                   ImplSelf(item, module_path),
                                                   item.fns[k].name),
                             item.fns[k].calls, module_path, ImplSelf(item, module_path))
                   : k \in 1..Len(item.fns)}
      [] item.tag = "Trait" ->
            UNION {IF item.fns[k].has_body
                   THEN BodySites(resolve_method_caller(
                                      function_index, module_path,
                                      resolve_type_segments(<<item.name>>, module_path),
                                      item.fns[k].name),
                                  item.fns[k].calls, module_path,
                                  resolve_type_segments(<<item.name>>, module_path))
                   ELSE {}
                   : k \in 1..Len(item.fns)}
      [] OTHER -> {}

\* parse_items is about to handle an item with bodies
AtBodies ==
    /\ pc = "calls"
    /\ parser.stack # <<>>
    /\ top_frame.items # <<>>
    /\ next_item.tag # "Mod"

Sites == ItemSites(next_item, top_frame.module_path)

CallPairs(es) == {<<e.from, e.to>> : e \in {x \in BagToSet(es) : x.kind = "CallsStatic"}}

Emitted == CallPairs(graph'.edges) \ CallPairs(graph.edges)

(***************************************************************************)
(* C10 as stated.  For a call site whose candidate set, the union of the   *)
(* rules' sets, has more than one member, Strict mode emits no CallsStatic *)
(* edge and Ambiguous mode emits exactly one CallsStatic edge per          *)
(* candidate other than the caller.  (Stated for an item all of whose call *)
(* sites have such a candidate set.)                                       *)
(***************************************************************************)
C10_Original_StrictDropsUnion ==
    [][(AtBodies /\ \A site \in Sites : Cardinality(CandidateSet(site.sets)) > 1)
       => IF call_mode = "Strict"
          THEN Emitted = {}
          ELSE CallPairs(graph'.edges) =
                   CallPairs(graph.edges)
                   \cup UNION {{<<site.caller, c>> :
                                   c \in CandidateSet(site.sets) \ {site.caller}}
                               : site \in Sites}]_vars

(***************************************************************************)
(* C10 amended.  The mode is applied to the candidate set of each          *)
(* resolution rule by itself.  In Strict mode a rule's set of more than    *)
(* one member is dropped while a rule's set of one member is kept, so a    *)
(* call site yields a CallsStatic edge to exactly the candidates that are  *)
(* the only member of a rule's set (none if there is no such rule); in     *)
(* Ambiguous mode it yields one to every member of the union.  The caller  *)
(* itself is never a target, and the graph holds each edge once.           *)
(***************************************************************************)
Targets(site) ==
    (IF call_mode = "Strict" THEN SingleMatches(site.sets) ELSE CandidateSet(site.sets))
    \ {site.caller}

C10_ModeAppliesPerRule ==
    [][AtBodies
       => /\ CallPairs(graph'.edges) =
                CallPairs(graph.edges)
                \cup UNION {{<<site.caller, c>> : c \in Targets(site)} : site \in Sites}
          /\ TriplesUnique(graph'.edges)]_vars

\* C10 witness: in Strict mode a graph is returned with a CallsStatic edge to
\* a function whose name another callable bears too, and with a callable
\* that calls that name and has no CallsStatic edge.
C10_Witness_StrictKeepsSingleRule ==
    /\ Built
    /\ call_mode = "Strict"
    /\ \E p \in CallPairs(graph.edges) :
          Cardinality(NameMatches(function_index.callables, Last(p[2]))) > 1
    /\ \E e \in BagToSet(function_index.callables) :
          /\ e.name = "run"
          /\ \A p \in CallPairs(graph.edges) : p[1] # e.path \/ Last(p[2]) # "b"

(***************************************************************************)
(* Call sites of a whole package                                           *)
(***************************************************************************)
\* the call sites parse_items meets from parser state ps to the end of the
\* traversal, in the [caller, sets] form of ItemSites
RECURSIVE WalkSites(_)
WalkSites(ps) ==
    IF ps.error # "None" \/ ps.stack = <<>> THEN {}
    ELSE LET top == Head(ps.stack)
             rest == [ps EXCEPT !.stack = <<[top EXCEPT !.items = Tail(@)]>> \o Tail(@)]
         IN  IF top.items = <<>> THEN WalkSites([ps EXCEPT !.stack = Tail(@)])
             ELSE IF Head(top.items).tag = "Mod"
             THEN WalkSites(handle_mod(rest, ps.source_provider, Head(top.items),
                                       top.module_path, top.current_dir))
             ELSE ItemSites(Head(top.items), top.module_path) \cup WalkSites(rest)

AllSites ==
    WalkSites(parse_module_file(SourceParser_new(parser.source_provider),
                                parser.source_provider, krate.root_file, <<>>))

CallEdges(es) == {e \in BagToSet(es) : e.kind = "CallsStatic"}

\* site is a call site of e's caller that has e's callee among its candidates
Produces(site, e) == site.caller = e.from /\ e.to \in CandidateSet(site.sets)

\* a candidate set of the site has e's callee as its only member
SingleFor(site, e) == \E k \in 1..Len(site.sets) : site.sets[k] = {e.to}

HighestConfidence(e) ==
    IF \E site \in AllSites : Produces(site, e) /\ SingleFor(site, e)
    THEN "Static" ELSE "Inferred"

C12_ConfidenceIsHighestOfPass ==
    Built => \A e \in CallEdges(graph.edges) : e.confidence = HighestConfidence(e)

\* the path calls of the bodies of the item parse_items handles next
NextPathCalls ==
    LET bodies == IF next_item.tag = "Fn" THEN <<next_item>> ELSE next_item.fns
    IN  UNION {{call.segments : call \in {c \in Range(bodies[i].calls) : c.tag = "Path"}}
               : i \in 1..Len(bodies)}

CallablePaths == {e.path : e \in BagToSet(function_index.callables)}

\* the candidates call extraction computes for a path call of the next item
PathCandidates(segments) ==
    DOMAIN resolve_callee_path_candidates(function_index, call_mode, segments,
                                          top_frame.module_path)

(***************************************************************************)
(* C13.  Whatever the calling module, a path call crate::s1::...::sk has   *)
(* the callable pkg::s1::...::sk as a candidate when that callable is      *)
(* indexed, and has no callable of another ID as a candidate.              *)
(***************************************************************************)
C13_CratePathResolvesExactly ==
    AtBodies =>
        \A segments \in NextPathCalls :
            (Len(segments) > 1 /\ segments[1] = "crate")
            => LET target == <<krate.crate_name>> \o Tail(segments)
               IN  /\ PathCandidates(segments) \subseteq {target}
                   /\ target \in CallablePaths => target \in PathCandidates(segments)

\* the number of leading `super` segments of a path
LeadingSupers(segments) ==
    CHOOSE n \in 0..Len(segments) :
        /\ \A i \in 1..n : segments[i] = "super"
        /\ n < Len(segments) => segments[n + 1] # "super"

\* a path of n >= 1 `super` segments followed by plain segments
IsSuperPath(segments) ==
    /\ LeadingSupers(segments) >= 1
    /\ \A i \in LeadingSupers(segments) + 1..Len(segments) :
          segments[i] \notin {"crate", "self", "Self"}

(***************************************************************************)
(* C14.  A path call of n leading `super` segments made from module path M *)
(* has as candidates exactly the callables whose path ends in              *)
(* M[..len(M)-n] ++ rest (the base is empty when n >= len(M)), a set of    *)
(* several being dropped in Strict mode.  When n < len(M) and the segments *)
(* of M differ from each other, no callable pkg::M[..j]::rest with         *)
(* j > len(M)-n is a candidate (super::super::f from a::b::c reaches       *)
(* neither pkg::a::b::f nor pkg::a::b::c::f).                              *)
(***************************************************************************)
C14_SuperPathResolvesFromAncestor ==
    AtBodies =>
        \A segments \in {s \in NextPathCalls : IsSuperPath(s)} :
            LET M == top_frame.module_path
                n == LeadingSupers(segments)
                rest == SubSeq(segments, n + 1, Len(segments))
                base == IF n >= Len(M) THEN <<>> ELSE SubSeq(M, 1, Len(M) - n)
                matches == SuffixMatches(function_index.callables, base \o rest)
            IN  /\ PathCandidates(segments) =
                      IF call_mode = "Ambiguous" \/ Cardinality(matches) = 1
                      THEN matches ELSE {}
                /\ (n < Len(M) /\ \A i, j \in 1..Len(M) : i # j => M[i] # M[j])
                      => \A j \in Len(M) - n + 1..Len(M) :
                            <<krate.crate_name>> \o SubSeq(M, 1, j) \o rest
                                \notin PathCandidates(segments)

\* C14 witness: parse_items is about to handle a function of module p::q::r
\* whose call super::super::f has pkg::p::f as its one candidate while
\* pkg::p::q::f is indexed, and the graph already holds the edge that
\* super::super::f called from module p (n >= len(M)) gave pkg::p::f.
C14_Witness_TwoLevelsUp ==
    /\ AtBodies
    /\ top_frame.module_path = <<"p", "q", "r">>
    /\ <<"super", "super", "f">> \in NextPathCalls
    /\ PathCandidates(<<"super", "super", "f">>) = {<<krate.crate_name, "p", "f">>}
    /\ <<krate.crate_name, "p", "q", "f">> \in CallablePaths
    /\ <<<<krate.crate_name, "p", "f">>, <<krate.crate_name, "p", "q", "f">>>>
          \in CallPairs(graph.edges)

\* the traits of the paths table whose last segment is name / whose full
\* path is name
TraitIds == {i \in DOMAIN krate.paths : krate.paths[i].kind = "Trait"}

TraitsNamed(name) ==
    {i \in TraitIds : krate.paths[i].path # <<>> /\ Last(krate.paths[i].path) = name}

TraitFullPath(i) == full_path_of(krate, krate.crate_name, i)

\* the Derives targets a name of a derive list is to get
DeriveTargets(trait_name) ==
    IF Len(trait_name) > 1
    THEN {TraitFullPath(i) : i \in {j \in TraitIds : TraitFullPath(j) = trait_name}}
    ELSE IF Cardinality(TraitsNamed(trait_name[1])) = 1
    THEN {TraitFullPath(i) : i \in TraitsNamed(trait_name[1])}
    ELSE {}

\* the owner ID build_graph gives an item of the index
OwnerId(i) ==
    IF krate.index[i].tag = "Impl"
    THEN impl_node_id(crate_name_for_id(krate, krate.index[i].crate_id, krate.crate_name),
                      krate.index[i].id)
    ELSE resolve_id(krate, krate.crate_name, krate.index[i].id)

DeriveNames(i) == UNION {Range(krate.index[i].attrs[k].derive) :
                            k \in 1..Len(krate.index[i].attrs)}

DerivesEdges == {e \in BagToSet(graph.edges) : e.kind = "Derives"}

(***************************************************************************)
(* C15.  In the graph build_graph returns, the Derives edges of an item    *)
(* are those its derive list asks for: for a bare name exactly one trait   *)
(* bears, one edge to that trait; for a bare name several traits bear,     *)
(* none; for a qualified name, one to every trait of that full path.  Each *)
(* is in the graph once and has Inferred confidence.                       *)
(***************************************************************************)
C15_DerivesFollowDeriveList ==
    Built =>
        /\ \A owner \in {OwnerId(i) : i \in DOMAIN krate.index} \ {None} :
              {e.to : e \in {d \in DerivesEdges : d.from = owner}}
                  = UNION {DeriveTargets(name) :
                              name \in UNION {DeriveNames(i) :
                                                 i \in {j \in DOMAIN krate.index :
                                                           OwnerId(j) = owner}}}
        /\ \A e \in DerivesEdges :
              /\ e.confidence = "Inferred"
              /\ CopiesIn(e, graph.edges) = 1
              /\ \E i \in DOMAIN krate.index : OwnerId(i) = e.from

\* C15 witness: a returned graph whose struct derives a bare name of one
\* trait, a bare name of two traits and a qualified name; it has Derives
\* edges to the first and the third and none to the other trait of the
\* shared name.
C15_Witness_UniqueAmbiguousQualified ==
    /\ Built
    /\ \E i \in DOMAIN krate.index :
          /\ OwnerId(i) # None
          /\ \E u, t, q \in DeriveNames(i) :
                /\ Len(u) = 1 /\ Cardinality(TraitsNamed(u[1])) = 1
                /\ Len(t) = 1 /\ Cardinality(TraitsNamed(t[1])) = 2
                /\ Len(q) > 1 /\ DeriveTargets(q) # {}
                /\ \A x \in DeriveTargets(u) \cup DeriveTargets(q) :
                      \E e \in DerivesEdges : e.from = OwnerId(i) /\ e.to = x
                /\ \E j \in TraitsNamed(t[1]) :
                      \A e \in DerivesEdges : e.to # TraitFullPath(j)

(***************************************************************************)
(* C16.  In the graph build_graph returns, no node has an ID with a        *)
(* segment `_` or `__...`, and no edge of any kind has such an ID as its   *)
(* `from` or its `to`.                                                     *)
(***************************************************************************)
C16_InternalPathsContributeNothing ==
    Built =>
        /\ \A n \in BagToSet(graph.nodes) : ~is_internal_path(n.id)
        /\ \A e \in BagToSet(graph.edges) :
              ~is_internal_path(e.from) /\ ~is_internal_path(e.to)

(***************************************************************************)
(* One run of build_graph with every map iterated in one fixed order       *)
(***************************************************************************)
\* the rest of the source traversal from parser state ps, on build state st
RECURSIVE RunCalls(_, _)
RunCalls(st, ps) ==
    IF ps.error # "None" \/ ps.stack = <<>> THEN st
    ELSE LET top == Head(ps.stack)
             item == Head(top.items)
             rest == [ps EXCEPT !.stack = <<[top EXCEPT !.items = Tail(@)]>> \o Tail(@)]
         IN  IF top.items = <<>> THEN RunCalls(st, [ps EXCEPT !.stack = Tail(@)])
             ELSE CASE item.tag = "Mod" ->
                         RunCalls(st, handle_mod(rest, ps.source_provider, item,
                                                 top.module_path, top.current_dir))
                    [] item.tag = "Fn" ->
                         RunCalls(handle_fn(st, function_index, call_mode, item,
                                            top.module_path), rest)
                    [] item.tag = "Impl" ->
                         RunCalls(handle_impl(st, function_index, call_mode, item,
                                              top.module_path), rest)
                    [] item.tag = "Trait" ->
                         RunCalls(handle_trait(st, function_index, call_mode, item,
                                               top.module_path), rest)
                    [] OTHER -> RunCalls(st, rest)

\* the build state of the run that iterates krate.paths and krate.index in
\* the order SetToSeq gives
FixedOrderBuild ==
    LET c == krate.crate_name
        parent_map == CHOOSE f \in ParentMaps(krate) : TRUE
        s0 == ensure_crate_node(NewBuild, c, "Public", c \notin members)
        s1 == Fold2(LAMBDA st, i : paths_entry(st, krate, c, members, i),
                    s0, SetToSeq(DOMAIN krate.paths))
        s2 == add_use_import_edges_with_parent_map(s1, krate, c, parent_map)
        s3 == Fold2(LAMBDA st, i : index_item(st, krate, c, members, parent_map, i),
                    s2, SetToSeq(DOMAIN krate.index))
    IN  RunCalls(s3, parse_module_file(SourceParser_new(parser.source_provider),
                                       parser.source_provider, krate.root_file, <<>>))

(***************************************************************************)
(* C17.  Every run of build_graph on one description, one set of sources   *)
(* and one call mode returns the same set of nodes and the same set of     *)
(* edges, whatever the iteration order of the maps: the graph returned is  *)
(* that of the run which iterates in one fixed order.                      *)
(***************************************************************************)
C17_GraphIndependentOfIterationOrder ==
    Built =>
        /\ BagToSet(graph.nodes) = BagToSet(FixedOrderBuild.nodes)
        /\ BagToSet(graph.edges) = BagToSet(FixedOrderBuild.edges)

(***************************************************************************)
(* Views of one merge step of load_workspace_graph                         *)
(***************************************************************************)
\* the attributes that count for completeness, and the score they give
Attributes(n) ==
    n.has \cup (IF n.visibility # "Unknown" THEN {"visibility"} ELSE {})

Weight(a) == IF a \in {"fields", "variants", "signature"} THEN 2 ELSE 1

RECURSIVE SumWeights(_)
SumWeights(S) ==
    IF S = {} THEN 0
    ELSE LET a == CHOOSE x \in S : TRUE IN Weight(a) + SumWeights(S \ {a})

Score(n) == SumWeights(Attributes(n))

\* n1 ranks strictly above n2
RanksAbove(n1, n2) ==
    \/ ~n1.is_external /\ n2.is_external
    \/ n1.is_external = n2.is_external /\ Score(n1) > Score(n2)

\* the input nodes of ID id at a merge step, earliest first: the node kept
\* so far (itself an input node of an earlier graph), then the graph's
KeptBefore(id) == IF id \in DOMAIN nodes_by_id THEN {nodes_by_id[id]} ELSE {}

Incoming(id) == {n \in BagToSet(graph.nodes) : n.id = id}

(***************************************************************************)
(* C18.  At every merge of a per-package graph the node kept for each ID   *)
(* is a best one among the node kept so far and the graph's nodes of that  *)
(* ID: it is one of them, none of them ranks above it (a non-external node *)
(* ranks above an external one, and within one externality a higher score  *)
(* ranks above a lower), and the node kept so far stays unless a node of   *)
(* the graph ranks above it.  IDs are kept for exactly the input nodes.    *)
(***************************************************************************)
C18_MergeKeepsBestEarliest ==
    [][pc = "built"
       => /\ DOMAIN nodes_by_id' = DOMAIN nodes_by_id \cup Ids(graph.nodes)
          /\ \A id \in DOMAIN nodes_by_id' :
                LET kept == nodes_by_id'[id]
                IN  /\ kept \in KeptBefore(id) \cup Incoming(id)
                    /\ \A n \in KeptBefore(id) \cup Incoming(id) : ~RanksAbove(n, kept)
                    /\ \A old \in KeptBefore(id) :
                          (\A n \in Incoming(id) : ~RanksAbove(n, old)) => kept = old]_vars

\* C18 witness: a graph has just been merged after an earlier one, and for
\* an ID of that graph the merged nodes keep the earlier graph's node, which
\* differs from the graph's node and has its externality and its score.
C18_Witness_TieKeepsEarliest ==
    /\ pc = "load"
    /\ \E n \in BagToSet(graph.nodes) :
          /\ n.id \in DOMAIN nodes_by_id
          /\ nodes_by_id[n.id] # n
          /\ nodes_by_id[n.id].is_external = n.is_external
          /\ Score(nodes_by_id[n.id]) = Score(n)

(***************************************************************************)
(* C19.  Merging never loses an attribute: at every merge of a per-package *)
(* graph, each attribute (span, fields, variants, signature, generics,     *)
(* docs, attrs, known visibility) that the node kept so far or a node of   *)
(* the graph has is an attribute of the node kept for that ID afterwards.  *)
(***************************************************************************)
C19_MergeKeepsEveryAttribute ==
    [][pc = "built"
       => \A id \in DOMAIN nodes_by_id' :
             \A n \in KeptBefore(id) \cup Incoming(id) :
                 Attributes(n) \subseteq Attributes(nodes_by_id'[id])]_vars

(***************************************************************************)
(* C20.  The Workspace partitions the merged, deduplicated edges: an edge  *)
(* whose `from` and `to` lead with one package segment is exactly once in  *)
(* the edge list of that package's graph, any other edge is exactly once   *)
(* in cross_crate_edges, and every merged edge is in the Workspace exactly *)
(* once.                                                                   *)
(***************************************************************************)
C20_EdgesPartitioned ==
    Done =>
        /\ \A e \in BagToSet(edges) :
              /\ CopiesIn(e, WorkspaceEdges) = 1
              /\ IF node_crate(e.from) = node_crate(e.to)
                 THEN \E g \in BagToSet(workspace.crates) :
                         g.id = node_crate(e.from) /\ CopiesIn(e, g.edges) = 1
                 ELSE CopiesIn(e, workspace.cross_crate_edges) = 1
        /\ BagToSet(WorkspaceEdges) \subseteq BagToSet(edges)

\* how many CrateGraphs / ExternalCrate stubs of the Workspace have ID p
GraphsOf(p) ==
    BagCardinality(BagFilter(workspace.crates, LAMBDA g : g.id = p))

StubsOf(p) ==
    BagCardinality(BagFilter(workspace.external_crates, LAMBDA x : x.id = p))

(***************************************************************************)
(* C21.  In the Workspace every merged node is in exactly one bucket, the  *)
(* one of the leading segment p of its ID: the CrateGraph of p when p is a *)
(* workspace member, the ExternalCrate stub of p otherwise.  Every member  *)
(* has exactly one CrateGraph, with or without nodes, and no package ID is *)
(* both in crates and in external_crates.  The buckets hold merged nodes   *)
(* only.                                                                   *)
(***************************************************************************)
C21_NodesPartitioned ==
    Done =>
        /\ \A id \in DOMAIN nodes_by_id :
              LET n == nodes_by_id[id]
                  p == node_crate(id)
              IN  /\ CopiesIn(n, WorkspaceNodes) = 1
                  /\ IF p \in members
                     THEN \E g \in BagToSet(workspace.crates) :
                             g.id = p /\ CopiesIn(n, g.nodes) = 1
                     ELSE \E x \in BagToSet(workspace.external_crates) :
                             x.id = p /\ CopiesIn(n, x.nodes) = 1
        /\ BagToSet(WorkspaceNodes) = {nodes_by_id[id] : id \in DOMAIN nodes_by_id}
        /\ \A m \in members : GraphsOf(m) = 1 /\ StubsOf(m) = 0
        /\ \A g \in BagToSet(workspace.crates) : g.id \in members
        /\ \A x \in BagToSet(workspace.external_crates) :
              StubsOf(x.id) = 1 /\ GraphsOf(x.id) = 0

\* C21 witness: a Workspace with a member's CrateGraph that has nodes, a
\* member's CrateGraph that has none, and an ExternalCrate stub.
C21_Witness_EmptyMemberAndStub ==
    /\ Done
    /\ \E g \in BagToSet(workspace.crates) : g.nodes # EmptyBag
    /\ \E g \in BagToSet(workspace.crates) : g.nodes = EmptyBag
    /\ workspace.external_crates # EmptyBag

\* the merged nodes and edges are those of the one graph G = graph: no
\* other graph has contributed to them
OnlyMerged ==
    /\ DOMAIN nodes_by_id = Ids(graph.nodes)
    /\ \A n \in BagToSet(graph.nodes) : nodes_by_id[n.id] = n
    /\ edges = graph.edges

\* G lies within package p
Within(p) ==
    /\ \A n \in BagToSet(graph.nodes) : n.id[1] = p
    /\ \A e \in BagToSet(graph.edges) : e.from[1] = p /\ e.to[1] = p

(***************************************************************************)
(* C22 as stated.  Merging exactly one per-package graph G of a member     *)
(* package into an empty workspace yields a Workspace with exactly one     *)
(* CrateGraph, whose node set is G's node set and whose edge set is G's    *)
(* edge set.                                                               *)
(***************************************************************************)
C22_Original_SingleGraphIsWorkspace ==
    (Done /\ OnlyMerged /\ graph.nodes # EmptyBag)
    => /\ BagCardinality(workspace.crates) = 1
       /\ \A g \in BagToSet(workspace.crates) :
             /\ BagToSet(g.nodes) = BagToSet(graph.nodes)
             /\ BagToSet(g.edges) = BagToSet(graph.edges)

(***************************************************************************)
(* C22 amended.  Merging exactly one per-package graph G into an empty     *)
(* workspace yields one CrateGraph per workspace member; the CrateGraph of *)
(* member p has as nodes the nodes of G whose ID leads with p and as edges *)
(* the edges of G whose two ends lead with p.  When p is the only member   *)
(* and G lies within p, the single CrateGraph has G's nodes and G's edges. *)
(***************************************************************************)
C22_SingleGraphSplitsByPackage ==
    (Done /\ OnlyMerged /\ graph.nodes # EmptyBag)
    => /\ {g.id : g \in BagToSet(workspace.crates)} = members
       /\ BagCardinality(workspace.crates) = Cardinality(members)
       /\ \A g \in BagToSet(workspace.crates) :
             /\ BagToSet(g.nodes) = {n \in BagToSet(graph.nodes) : n.id[1] = g.id}
             /\ BagToSet(g.edges) =
                    {e \in BagToSet(graph.edges) : e.from[1] = g.id /\ e.to[1] = g.id}
             /\ \A n \in BagToSet(g.nodes) : CopiesIn(n, g.nodes) = 1
             /\ \A e \in BagToSet(g.edges) : CopiesIn(e, g.edges) = 1
       /\ \A p \in members :
             (members = {p} /\ Within(p))
             => \A g \in BagToSet(workspace.crates) :
                   /\ BagToSet(g.nodes) = BagToSet(graph.nodes)
                   /\ BagToSet(g.edges) = BagToSet(graph.edges)

\* C22 witness: the Workspace of one merged graph that lies within the only
\* member and has edges; its single CrateGraph holds those nodes and edges.
C22_Witness_OnlyMemberGraph ==
    /\ Done
    /\ OnlyMerged
    /\ \E p \in members : members = {p} /\ Within(p)
    /\ graph.edges # EmptyBag
    /\ \E g \in BagToSet(workspace.crates) :
          BagCardinality(g.nodes) > 1 /\ g.edges # EmptyBag

(***************************************************************************)
(* C23: a failed read or parse is fatal for the package and the load       *)
(***************************************************************************)
\* the file-module declarations of a file, those of its inline modules included
RECURSIVE FileMods(_)
FileMods(items) ==
    IF items = <<>> THEN {}
    ELSE LET item == Head(items)
             here == IF item.tag # "Mod" THEN {}
                     ELSE IF item.content THEN FileMods(item.items)
                     ELSE {item}
         IN  here \cup FileMods(Tail(items))

Readable(provider, path) ==
    read_file(provider, path).ok /\ read_file(provider, path).content.parsable

\* the files the module declarations of a readable file resolve to
DeclaredFiles(provider, path) ==
    IF ~Readable(provider, path) THEN {}
    ELSE {resolve_module_file(parent(path), m, provider) :
             m \in FileMods(read_file(provider, path).content.items)} \ {None}

RECURSIVE Closure(_, _)
Closure(provider, S) ==
    LET T == S \cup UNION {DeclaredFiles(provider, p) : p \in S}
    IN  IF T = S THEN S ELSE Closure(provider, T)

\* every path module traversal can reach from the root file
ReachedFiles == Closure(parser.source_provider, {krate.root_file})

TraversalFails == \E p \in ReachedFiles : ~Readable(parser.source_provider, p)

\* C23: a package whose traversal reaches a file that cannot be read or
\* parsed never returns a graph: extraction ends in the error state with
\* an Io or Syn error, only a package without such a file is built, and the
\* error state is final for the whole load, which yields no workspace.
C23_SourceFailureIsFatal ==
    /\ [](pc = "built" => ~TraversalFails)
    /\ [](pc = "error" => /\ parser.error \in {"Io", "Syn"}
                          /\ TraversalFails
                          /\ workspace = NoWorkspace)
    /\ [](parser.error # "None" => pc = "error")
    /\ [][pc = "error" => pc' = "error"]_vars

\* C23 witness: the second package of a load fails on an unparsable module
\* file after a call edge of its root file was added; the first is merged
C23_Witness_PartialEdgesNoGraph ==
    /\ pc = "error"
    /\ parser.error = "Syn"
    /\ CallEdges(graph.edges) # {}
    /\ nodes_by_id # EmptyMap

(***************************************************************************)
(* C24: lookups of the in-memory source provider                           *)
(***************************************************************************)
Separators == {"/", "\\"}

\* a path with every backslash replaced by a forward slash
ForwardSlashed(path) ==
    [i \in 1..Len(path) |-> IF path[i] \in Separators THEN "/" ELSE path[i]]

\* the ways of writing a path under either path convention
Respell(path) ==
    {q \in [1..Len(path) -> {path[i] : i \in 1..Len(path)} \cup Separators] :
        \A i \in 1..Len(path) :
            IF path[i] \in Separators THEN q[i] \in Separators ELSE q[i] = path[i]}

\* the lookups considered: every spelling of every key of the table, of a
\* directory and of a path the table lacks
LookupPaths ==
    UNION {Respell(key) : key \in DOMAIN krate.source_files}
    \cup Respell(<<"src", "/", "k">>) \cup Respell(<<"src", "/", "gone.rs">>)

ProviderBuilt == pc \in {"calls", "built", "error"}

\* the keys of the table given to MemorySourceProvider::new that a lookup names
KeysNamed(path) ==
    {key \in DOMAIN krate.source_files : ForwardSlashed(key) = ForwardSlashed(path)}

LookupAgrees(path) ==
    LET provider == parser.source_provider
        result == read_file(provider, path)
    IN  /\ file_exists(provider, path) <=> result.ok
        /\ result.ok <=> KeysNamed(path) # {}
        /\ result.ok =>
              \E key \in KeysNamed(path) : result.content = krate.source_files[key]
        /\ ~result.ok => result.error = "Io"

\* C24: for the provider built from the package's source map and every
\* lookup path, file_exists is true iff read_file succeeds iff a key of the
\* map equals the path once both are written with forward slashes; read_file
\* returns the content given under such a key, else the Io (not found)
\* error; the table of the provider never changes during traversal.
C24_MemoryProviderNormalizesLookups ==
    /\ [](ProviderBuilt => \A path \in LookupPaths : LookupAgrees(path))
    /\ [][pc = "calls" => parser'.source_provider = parser.source_provider]_vars

\* C24 witness: the provider holds a file given under a backslash key, and
\* the traversal has read it through a forward-slash and a mixed spelling
C24_Witness_BackslashKeyFound ==
    /\ ProviderBuilt
    /\ <<"src", "\\", "k", "\\", "mod.rs">> \in DOMAIN krate.source_files
    /\ parser.source_provider[<<"src", "/", "k", "/", "mod.rs">>]
          = krate.source_files[<<"src", "\\", "k", "\\", "mod.rs">>]
    /\ {<<"src", "/", "k", "/", "mod.rs">>, <<"src", "/", "k", "\\", "mod.rs">>}
          \subseteq parser.visited_files
    /\ parser.error = "None"

(***************************************************************************)
(* C25: the file of a file-module declaration                              *)
(***************************************************************************)
\* the path `rel` below directory `dir`
Under(dir, rel) ==
    IF rel # <<>> /\ rel[1] = "/" THEN rel
    ELSE IF dir = <<>> THEN rel
    ELSE dir \o <<"/">> \o rel

\* the places a declaration `mod m;` of a file of directory D names, in order
ModuleFilePlaces(D, item_mod) ==
    (IF item_mod.path_override = None THEN <<>>
     ELSE <<Under(D, item_mod.path_override)>>)
    \o <<Under(D, <<item_mod.name \o ".rs">>),
         Under(D, <<item_mod.name, "/", "mod.rs">>)>>

Exists(path) == ForwardSlashed(path) \in DOMAIN parser.source_provider

ExistingPlaces(D, item_mod) ==
    {i \in 1..Len(ModuleFilePlaces(D, item_mod)) : Exists(ModuleFilePlaces(D, item_mod)[i])}

FirstExisting(D, item_mod) ==
    LET places == ModuleFilePlaces(D, item_mod)
        i == CHOOSE i \in ExistingPlaces(D, item_mod) :
                 \A j \in ExistingPlaces(D, item_mod) : i <= j
    IN  places[i]

AtFileMod ==
    /\ pc = "calls"
    /\ parser.stack # <<>>
    /\ top_frame.items # <<>>
    /\ next_item.tag = "Mod"
    /\ ~next_item.content

\* the step taken for the declaration `mod m;` met in directory D at module path P
FileModStep ==
    LET D == top_frame.current_dir
        P == top_frame.module_path
        after == Tail(parser.stack)
    IN  IF ExistingPlaces(D, next_item) = {}
        THEN /\ pc' = "calls"
             /\ parser'.error = "None"
             /\ parser'.visited_files = parser.visited_files
             /\ Tail(parser'.stack) = after
             /\ Head(parser'.stack).items = Tail(top_frame.items)
        ELSE LET file == FirstExisting(D, next_item)
                 text == parser.source_provider[ForwardSlashed(file)]
             IN  /\ parser'.visited_files = parser.visited_files \cup {file}
                 /\ file \notin parser.visited_files /\ text.parsable =>
                       /\ pc' = "calls"
                       /\ Head(parser'.stack).items = text.items
                       /\ Head(parser'.stack).module_path = P \o <<next_item.name>>
                       /\ Tail(Tail(parser'.stack)) = after
                 /\ file \notin parser.visited_files /\ ~text.parsable => pc' = "error"
                 /\ file \in parser.visited_files =>
                       pc' = "calls" /\ Tail(parser'.stack) = after

\* C25: for a declaration `mod m;` met at module path P in a file of
\* directory D, the file parsed is the first existing one of the `#[path]`
\* override below D, D/m.rs and D/m/mod.rs, its items are traversed under
\* module path P ++ [m], and when none exists the declaration is passed
\* over without an error.
C25_ModuleFileResolutionOrder ==
    [][AtFileMod => FileModStep]_vars

\* C25 witness: the traversal stands in the file of the override of `mod m`
\* under module path [m] although a sibling m.rs exists; `mod k`, whose
\* override is missing, and `mod z`, which has no file, are still to come
C25_Witness_OverrideWinsOverSibling ==
    /\ pc = "calls"
    /\ Len(parser.stack) = 2
    /\ top_frame.module_path = <<"m">>
    /\ <<"src", "/", "alt.rs">> \in DOMAIN parser.source_provider
    /\ top_frame.items = parser.source_provider[<<"src", "/", "alt.rs">>].items
    /\ <<"src", "/", "m.rs">> \in DOMAIN parser.source_provider
    /\ <<"src", "/", "m.rs">> \notin parser.visited_files
    /\ <<"src", "/", "gone.rs">> \notin DOMAIN parser.source_provider

(***************************************************************************)
(* C26: each source file is parsed at most once                            *)
(***************************************************************************)
\* the visited paths that were read: each names a file of the provider
PathsRead == {v \in parser.visited_files : Exists(v)}

\* C26: in one extraction run no source file is read under two visited
\* paths, however the declarations that resolve to it are written; the
\* visited set only grows during the run and holds at most as many entries
\* as the package has source files.
C26_EachFileParsedOnce ==
    /\ [](ProviderBuilt =>
            /\ \A v, w \in PathsRead : ForwardSlashed(v) = ForwardSlashed(w) => v = w
            /\ Cardinality(PathsRead) <= Cardinality(DOMAIN parser.source_provider))
    /\ [][pc = "calls" => parser.visited_files \subseteq parser'.visited_files]_vars

(***************************************************************************)
(* C27: module traversal terminates                                        *)
(***************************************************************************)
\* the state predicate ENABLED <<ParseItem>>_vars equals: ParseItem has no
\* other guard and always advances the parser
ParseItemEnabled ==
    /\ pc = "calls"
    /\ parser.stack # <<>>
    /\ top_frame.items # <<>>
    /\ next_item.tag # "Mod"

\* the traversal runs to completion on the caller's thread: a traversal
\* step that can be taken is taken.  The last conjunct is WF_vars(ParseItem)
\* with its ENABLED written out.
SpecLive ==
    /\ Init /\ [][Next]_vars
    /\ WF_vars(HandleMod) /\ WF_vars(EndItems) /\ WF_vars(EndBuild)
    /\ ([]<>(~ParseItemEnabled) \/ []<><<ParseItem>>_vars)

EntryCrate(item_id) ==
    crate_name_for_id(krate, krate.paths[item_id].crate_id, krate.crate_name)

EntryKind(item_id) ==
    map_item_kind(krate.paths[item_id].kind, item_id \in collect_method_ids(krate))

\* the entries of the paths table the walk does not skip
KeptEntries ==
    {item_id \in DOMAIN krate.paths :
        /\ EntryKind(item_id) # "None"
        /\ krate.paths[item_id].path # <<>>
        /\ ~is_internal_path(krate.paths[item_id].path)}

\* the node the walk makes of an entry when it is the first to carry the ID
EntryNode(item_id) ==
    path_node(krate, item_id, join_path(EntryCrate(item_id), krate.paths[item_id].path),
              EntryKind(item_id), EntryCrate(item_id) \notin members)

\* the kept entries whose ID no other kept entry has, the entry of the
\* package root (whose ID is the crate node's) left aside
SoleEntries ==
    {item_id \in KeptEntries :
        /\ EntryNode(item_id).id # <<EntryCrate(item_id)>>
        /\ \A other \in KeptEntries :
              EntryNode(other).id = EntryNode(item_id).id => other = item_id}

\* C28: in a built package graph every entry of the paths table that is not
\* skipped (and is the only entry of its ID, below its crate) has a node of
\* its ID whose kind is the one mapped from the entry's kind tag and whose
\* visibility, span and payload are those of the entry's item, whatever the
\* order the entries were processed in.
C28_EntryNodeHasEntryKind ==
    Built =>
        \A item_id \in SoleEntries :
            \E n \in BagToSet(graph.nodes) :
                /\ n.id = EntryNode(item_id).id
                /\ n.kind = EntryNode(item_id).kind
                /\ n.visibility = EntryNode(item_id).visibility
                /\ n.has = EntryNode(item_id).has

(***************************************************************************)
(* C29: what call extraction changes                                       *)
(***************************************************************************)
\* the edges a step adds to the package graph
AddedEdges == BagToSet(graph'.edges (-) graph.edges)

CallExtractionStep == pc \in {"index", "calls"} /\ pc' \in {"calls", "built", "error"}

\* C29: a step of call extraction leaves every node and every edge of the
\* package graph as it was and adds only CallsStatic edges of confidence
\* Static or Inferred; no graph ever holds a CallsRuntime edge or an edge of
\* confidence Runtime.
C29_CallExtractionOnlyAppendsCallEdges ==
    /\ [][CallExtractionStep =>
            /\ graph'.nodes = graph.nodes
            /\ graph.edges \sqsubseteq graph'.edges
            /\ \A e \in AddedEdges :
                  e.kind = "CallsStatic" /\ e.confidence \in {"Static", "Inferred"}]_vars
    /\ [](\A e \in BagToSet(graph.edges) \cup BagToSet(edges) :
              e.kind # "CallsRuntime" /\ e.confidence # "Runtime")

\* C29 witness: amid the traversal the graph holds the walker's Contains
\* edges next to call edges of both confidences
C29_Witness_CallEdgesBesideWalkerEdges ==
    /\ pc = "calls"
    /\ parser.stack # <<>>
    /\ \E e \in BagToSet(graph.edges) : e.kind = "Contains"
    /\ \E e \in CallEdges(graph.edges) : e.confidence = "Static"
    /\ \E e \in CallEdges(graph.edges) : e.confidence = "Inferred"

(***************************************************************************)
(* C30: the caller of a call edge                                          *)
(***************************************************************************)
EndsWithSegments(id, segments) ==
    /\ Len(segments) <= Len(id)
    /\ SubSeq(id, Len(id) - Len(segments) + 1, Len(id)) = segments

\* the paths of the callables whose bodies the item holds: M ++ [n] for a
\* function n at module path M, T ++ [n] for a method n of type path T
LexicalPaths(item, module_path) ==
    CASE item.tag = "Fn" -> {module_path \o <<item.name>>}
      [] item.tag = "Impl" ->
            {ImplSelf(item, module_path).segments \o <<item.fns[k].name>> :
                k \in 1..Len(item.fns)}
      [] item.tag = "Trait" ->
            {resolve_type_segments(<<item.name>>, module_path).segments
                 \o <<item.fns[k].name>> : k \in 1..Len(item.fns)}
      [] OTHER -> {}

\* C30: every CallsStatic edge added for the bodies of an item leaves a
\* callable whose ID ends with the path of one of these bodies: M ++ [n]
\* for a function, T ++ [n] for a method; a body without such a callable in
\* the function index adds no edge.
C30_CallerIsLexicalContainer ==
    [][AtBodies =>
          \A p \in Emitted :
              \E path \in LexicalPaths(next_item, top_frame.module_path) :
                  EndsWithSegments(p[1], path)]_vars

\* the entries a body of the item is looked up in
IndexFor(item) ==
    IF item.tag = "Fn" THEN BagToSet(function_index.callables)
    ELSE BagToSet(function_index.methods)

SuffixCallers(item, path) ==
    {e.path : e \in {x \in IndexFor(item) : EndsWithSegments(x.path, path)}}

Namesakes(item, name) == {e \in IndexFor(item) : e.name = name}

\* the caller the body of lexical path `path` is attributed to: the one
\* callable whose ID ends with the path (for a method also: with the module
\* path and the path) or, when no single callable's does, the one callable
\* of the body's bare name
IsCallerOf(id, item, module_path, path) ==
    \/ SuffixCallers(item, path) = {id}
    \/ item.tag # "Fn" /\ SuffixCallers(item, module_path \o path) = {id}
    \/ /\ Cardinality(SuffixCallers(item, path)) # 1
       /\ Cardinality(Namesakes(item, Last(path))) = 1
       /\ \A e \in Namesakes(item, Last(path)) :
              e.path = id /\ CopiesIn(e, IF item.tag = "Fn"
                                         THEN function_index.callables
                                         ELSE function_index.methods) = 1

\* C30 amended: every CallsStatic edge added for the bodies of an item
\* leaves the callable one of these bodies is attributed to: the callable
\* whose ID ends with M ++ [n] (T ++ [n] or M ++ T ++ [n] for a method), or
\* else the only callable of bare name n; a body with neither adds no edge.
C30_CallerIsContainerOrOnlyNamesake ==
    [][AtBodies =>
          \A p \in Emitted :
              \E path \in LexicalPaths(next_item, top_frame.module_path) :
                  IsCallerOf(p[1], next_item, top_frame.module_path, path)]_vars

\* C30 witness: in Strict mode the graph holds the edge of the body of m::f,
\* an edge added for the body of m::h under the only callable named h, k::h,
\* whose own body (here absent from the file of k) calls nothing, and no
\* edge for the body of x::f, whose name two callables bear
C30_Witness_BodyUnderOnlyNamesake ==
    /\ Built
    /\ Head(jsons).variant = "files"
    /\ call_mode = "Strict"
    /\ Len(parser.source_provider[<<"src", "/", "k", "/", "mod.rs">>].items) = 1
    /\ <<<<krate.crate_name, "m", "f">>, <<krate.crate_name, "k", "f">>>>
          \in CallPairs(graph.edges)
    /\ <<<<krate.crate_name, "k", "h">>, <<krate.crate_name, "m", "f">>>>
          \in CallPairs(graph.edges)
    /\ \A p \in CallPairs(graph.edges) : p[2] # <<krate.crate_name, "k", "h">>

====
